---- MODULE Spec2Model ----
(***************************************************************************)
(* Interview tracker: the relational store (database/db.py), the auth      *)
(* service (modules/auth.py), the interview form and list                  *)
(* (modules/interviews.py), the analytics tables (modules/dashboard.py,    *)
(* modules/roadmap.py), the reminders page (modules/resources.py) and the  *)
(* page router (app.py).                                                   *)
(*                                                                         *)
(* Text values whose length or characters the code inspects (username,     *)
(* email, password) are sequences of one-character strings; text values    *)
(* the code only tests for emptiness or equality are strings, "" being     *)
(* the empty text.  An ISO date text 'YYYY-MM-DD' is the tuple             *)
(* <<year, month, day>>: the text is fixed width and zero padded, so the   *)
(* store's text comparison is the lexicographic comparison of the tuple.   *)
(* The topic analysis splits technical_topics at its commas, so the lists  *)
(* it is computed over carry that text as a sequence of characters.        *)
(***************************************************************************)
EXTENDS Integers, Sequences, FiniteSets, TLC

VARIABLES
    users,          \* rows of table users
    interviews,     \* rows of table interviews
    interview_skills, \* rows of table interview_skills
    interview_seq,  \* largest interview_id the store has handed out
    autoincrement,  \* whether interview_id is declared AUTOINCREMENT
    session,        \* st.session_state of the browser session (of each, under SpecSessions)
    last_op,        \* the name of the last call made
    last            \* its arguments and its result

vars == <<last_op, users, interviews, interview_skills, interview_seq, autoincrement, session, last>>

\* ------------------------------------------------------------------ bounds

\* largest interview_id the store hands out
MaxInterviews == 2
\* readings of the wall clock that datetime.now() can return
MaxTime == 1
\* longest interview list the trend is computed for
MaxRecords == 7
\* longest interview list the topics are extracted from
MaxTopicRows == 2
\* longest interview list the tips are generated for
MaxTipRows == 5
\* most rows of table interview_skills
MaxSkills == 2

\* ------------------------------------------------------------------ values

\* Python's None / SQL NULL for an id or a timestamp (ids start at 1)
None == 0

NoText == <<>>

Usernames == { <<>>, <<"a","l">>, <<"a","n","n">>, <<"b","o","b">> }
Emails    == { <<>>, <<"a","x">>, <<"a","@","x">>, <<"b","@","x">> }
Passwords == { <<>>, <<"a","b","c","d","e">>, <<"s","e","c","r","e","t">>,
               <<"h","u","n","t","e","r","2">> }
\* the accounts the interview pages are exercised with
Accounts  == { [username |-> <<"a","n","n">>, email |-> <<"a","@","x">>,
                password |-> <<"s","e","c","r","e","t">>],
               [username |-> <<"b","o","b">>, email |-> <<"b","@","x">>,
                password |-> <<"h","u","n","t","e","r","2">>] }
Salts     == { "s1" }
Times     == 1..MaxTime

Statuses  == <<"Applied", "Interviewed", "Selected", "Rejected">>
StatusSet == { Statuses[i] : i \in 1..Len(Statuses) }

\* a statement of the store runs, or fails with an I/O error; a handler that
\* makes two calls takes the outcome of each
IO   == { "ok", "error" }
IoOk == <<"ok", "ok">>

Max(S) == IF S = {} THEN 0 ELSE CHOOSE m \in S : \A x \in S : x <= m

\* ------------------------------------------------------------------ schema

\* users.username and users.email are UNIQUE
UsersIntegrityError(us, username, email) ==
    \E r \in us : r.username = username \/ r.email = email

\* interviews.reminder_sent of a row the INSERT gives no value for: unset
ReminderSentDefault == FALSE

\* users.user_id INTEGER PRIMARY KEY: the next rowid
NextUserId(us) == Max({ r.user_id : r \in us }) + 1

\* interviews.interview_id INTEGER PRIMARY KEY: the next rowid is one more
\* than the largest rowid in the table, or with AUTOINCREMENT one more than
\* the largest rowid ever handed out
NextInterviewId(ivs, seq, auto) ==
    IF auto THEN seq + 1 ELSE Max({ r.interview_id : r \in ivs }) + 1

\* ------------------------------------------------------------------ users

\* the "no row" result of fetchone(), and of a missing user in a login result
NoUser      == [user_id |-> None]
NoInterview == [interview_id |-> None]

Returned(store, ret) == [store |-> store, ret |-> ret, raised |-> FALSE]
Raised(store)        == [store |-> store, ret |-> None, raised |-> TRUE]

create_user_NoConstraint(us, username, email, password_hash, io) ==
    IF io = "error" THEN Raised(us)
    ELSE Returned(us \cup { [user_id |-> NextUserId(us), username |-> username,
                             email |-> email, password_hash |-> password_hash,
                             last_login |-> None] }, TRUE)

create_user(us, username, email, password_hash, io) ==
    IF io = "error" THEN Raised(us)
    ELSE IF UsersIntegrityError(us, username, email) THEN Returned(us, FALSE)
    ELSE Returned(us \cup { [user_id |-> NextUserId(us), username |-> username,
                             email |-> email, password_hash |-> password_hash,
                             last_login |-> None] }, TRUE)

get_user_by_username(us, username, io) ==
    IF io = "error" THEN Raised(us)
    ELSE IF \E r \in us : r.username = username
         THEN Returned(us, CHOOSE r \in us : r.username = username)
         ELSE Returned(us, NoUser)

update_last_login(us, user_id, now, io) ==
    IF io = "error" THEN Raised(us)
    ELSE Returned({ IF r.user_id = user_id THEN [r EXCEPT !.last_login = now] ELSE r
                    : r \in us }, None)

\* ------------------------------------------------------------------ auth

\* bcrypt: the hash text carries its salt, the digest is a one-way function
\* of the salt and the password
hash_password(password, salt) == [salt |-> salt, digest |-> <<salt>> \o password]

verify_password_Always(password, hashed) == TRUE

verify_password(password, hashed) == hash_password(password, hashed.salt) = hashed

Contains(text, ch) == \E i \in 1..Len(text) : text[i] = ch

MinUsernameLen == 3
MinPasswordLen == 6

Msg(ok, message) == [ok |-> ok, message |-> message]

signup_NoLengthCheck(us, username, email, password, salt, io) ==
    IF username = NoText \/ email = NoText \/ password = NoText
    THEN Returned(us, Msg(FALSE, "All fields are required"))
    ELSE IF Len(username) < MinUsernameLen
    THEN Returned(us, Msg(FALSE, "Username must be at least 3 characters"))
    ELSE IF ~Contains(email, "@")
    THEN Returned(us, Msg(FALSE, "Invalid email format"))
    ELSE LET r == create_user(us, username, email, hash_password(password, salt), io)
         IN  IF r.raised THEN Raised(us)
             ELSE IF r.ret
             THEN Returned(r.store, Msg(TRUE, "Account created successfully! Please login."))
             ELSE Returned(r.store, Msg(FALSE, "Username or email already exists"))

signup(us, username, email, password, salt, io) ==
    IF username = NoText \/ email = NoText \/ password = NoText
    THEN Returned(us, Msg(FALSE, "All fields are required"))
    ELSE IF Len(username) < MinUsernameLen
    THEN Returned(us, Msg(FALSE, "Username must be at least 3 characters"))
    ELSE IF Len(password) < MinPasswordLen
    THEN Returned(us, Msg(FALSE, "Password must be at least 6 characters"))
    ELSE IF ~Contains(email, "@")
    THEN Returned(us, Msg(FALSE, "Invalid email format"))
    ELSE LET r == create_user(us, username, email, hash_password(password, salt), io)
         IN  IF r.raised THEN Raised(us)
             ELSE IF r.ret
             THEN Returned(r.store, Msg(TRUE, "Account created successfully! Please login."))
             ELSE Returned(r.store, Msg(FALSE, "Username or email already exists"))

LoginResult(ok, message, user) == [ok |-> ok, message |-> message, user |-> user]

login(us, username, password, now, io) ==
    IF username = NoText \/ password = NoText
    THEN Returned(us, LoginResult(FALSE, "Username and password are required", NoUser))
    ELSE LET g == get_user_by_username(us, username, io[1])
         IN  IF g.raised THEN Raised(us)
             ELSE IF g.ret.user_id = None
             THEN Returned(us, LoginResult(FALSE, "Invalid username or password", NoUser))
             ELSE IF verify_password(password, g.ret.password_hash)
             THEN LET w == update_last_login(us, g.ret.user_id, now, io[2])
                  IN  IF w.raised THEN Raised(us)
                      ELSE Returned(w.store, LoginResult(TRUE, "Login successful!", g.ret))
             ELSE Returned(us, LoginResult(FALSE, "Invalid username or password", NoUser))

\* ------------------------------------------------------------------ interviews

\* the editable columns of an interviews row, as the form and the repository
\* pass them
Fields(company_name, role, interview_date, status, preparation_level, notes, technical_topics) ==
    [company_name |-> company_name, role |-> role, interview_date |-> interview_date,
     status |-> status, preparation_level |-> preparation_level, notes |-> notes,
     technical_topics |-> technical_topics]

NewRow(interview_id, user_id, f) ==
    [interview_id |-> interview_id, user_id |-> user_id,
     company_name |-> f.company_name, role |-> f.role,
     interview_date |-> f.interview_date, status |-> f.status,
     preparation_level |-> f.preparation_level, notes |-> f.notes,
     technical_topics |-> f.technical_topics, updated_at |-> None,
     reminder_sent |-> ReminderSentDefault]

add_interview_StatusApplied(ivs, seq, auto, user_id, f, io) ==
    IF io = "error" THEN Raised(ivs)
    ELSE LET interview_id == NextInterviewId(ivs, seq, auto)
         IN  Returned(ivs \cup { NewRow(interview_id, user_id, [f EXCEPT !.status = "Applied"]) },
                      interview_id)

\* no foreign key is enforced: get_connection never turns foreign_keys on
add_interview(ivs, seq, auto, user_id, f, io) ==
    IF io = "error" THEN Raised(ivs)
    ELSE LET interview_id == NextInterviewId(ivs, seq, auto)
         IN  Returned(ivs \cup { NewRow(interview_id, user_id, f) }, interview_id)

\* text comparison of two ISO dates
DateLess(a, b) ==
    \/ a[1] < b[1]
    \/ a[1] = b[1] /\ a[2] < b[2]
    \/ a[1] = b[1] /\ a[2] = b[2] /\ a[3] < b[3]

\* every listing of the rows S, each row once
Listings(S) ==
    { l \in [1..Cardinality(S) -> S] : \A i, j \in DOMAIN l : i # j => l[i] # l[j] }

OrderByDateAsc(S) ==
    { l \in Listings(S) :
        \A i, j \in DOMAIN l : i < j => ~DateLess(l[j].interview_date, l[i].interview_date) }

OrderByDateDesc(S) ==
    { l \in Listings(S) :
        \A i, j \in DOMAIN l : i < j => ~DateLess(l[i].interview_date, l[j].interview_date) }

get_user_interviews_Asc(ivs, user_id, io) ==
    IF io = "error" THEN { Raised(ivs) }
    ELSE { Returned(ivs, l) : l \in OrderByDateAsc({ r \in ivs : r.user_id = user_id }) }

get_user_interviews_AllUsers(ivs, user_id, io) ==
    IF io = "error" THEN { Raised(ivs) }
    ELSE { Returned(ivs, l) : l \in OrderByDateDesc(ivs) }

\* the results the SELECT may give: ORDER BY leaves the order of rows with
\* equal dates open
get_user_interviews(ivs, user_id, io) ==
    IF io = "error" THEN { Raised(ivs) }
    ELSE { Returned(ivs, l) : l \in OrderByDateDesc({ r \in ivs : r.user_id = user_id }) }

get_interview_by_id(ivs, interview_id, io) ==
    IF io = "error" THEN Raised(ivs)
    ELSE IF \E r \in ivs : r.interview_id = interview_id
         THEN Returned(ivs, CHOOSE r \in ivs : r.interview_id = interview_id)
         ELSE Returned(ivs, NoInterview)

update_interview_NoWhere(ivs, interview_id, f, now, io) ==
    IF io = "error" THEN Returned(ivs, FALSE)
    ELSE Returned({ [r EXCEPT !.company_name = f.company_name, !.role = f.role,
                              !.interview_date = f.interview_date,
                              !.status = f.status,
                              !.preparation_level = f.preparation_level,
                              !.notes = f.notes,
                              !.technical_topics = f.technical_topics,
                              !.updated_at = now]
                    : r \in ivs }, TRUE)

update_interview_FirstWriterWins(ivs, interview_id, f, now, io) ==
    IF io = "error" THEN Returned(ivs, FALSE)
    ELSE Returned({ IF r.interview_id = interview_id /\ r.updated_at = None
                    THEN [r EXCEPT !.company_name = f.company_name, !.role = f.role,
                                   !.interview_date = f.interview_date,
                                   !.status = f.status,
                                   !.preparation_level = f.preparation_level,
                                   !.notes = f.notes,
                                   !.technical_topics = f.technical_topics,
                                   !.updated_at = now]
                    ELSE r : r \in ivs }, TRUE)

update_interview(ivs, interview_id, f, now, io) ==
    IF io = "error" THEN Returned(ivs, FALSE)
    ELSE Returned({ IF r.interview_id = interview_id
                    THEN [r EXCEPT !.company_name = f.company_name, !.role = f.role,
                                   !.interview_date = f.interview_date,
                                   !.status = f.status,
                                   !.preparation_level = f.preparation_level,
                                   !.notes = f.notes,
                                   !.technical_topics = f.technical_topics,
                                   !.updated_at = now]
                    ELSE r : r \in ivs }, TRUE)

delete_interview_OfOwner(ivs, interview_id, io) ==
    IF io = "error" THEN Returned(ivs, FALSE)
    ELSE Returned({ r \in ivs : \A q \in ivs : q.interview_id = interview_id
                                                   => q.user_id # r.user_id }, TRUE)

delete_interview_NoCommit(ivs, interview_id, io) ==
    IF io = "error" THEN Returned(ivs, FALSE)
    ELSE Returned(ivs, TRUE)

delete_interview(ivs, interview_id, io) ==
    IF io = "error" THEN Returned(ivs, FALSE)
    ELSE Returned({ r \in ivs : r.interview_id # interview_id }, TRUE)

\* ------------------------------------------------------------------ skills

\* the rowid the store gives the next row of interview_skills
NextSkillId(skills) ==
    IF skills = {} THEN 1
    ELSE (CHOOSE m \in { s.rowid : s \in skills } : \A s \in skills : s.rowid <= m) + 1

\* add_interview_skill: one INSERT and a commit, with no try around them. The
\* connection is opened without PRAGMA foreign_keys, so the store does not
\* look interview_id up in table interviews.
add_interview_skill(skills, interview_id, skill_name, skill_score, io) ==
    IF io = "error" THEN Raised(skills)
    ELSE Returned(skills \cup { [rowid |-> NextSkillId(skills), interview_id |-> interview_id,
                                 skill_name |-> skill_name, skill_score |-> skill_score] },
                  None)

\* ------------------------------------------------------------------ analytics

\* SELECT status, COUNT(*) ... WHERE user_id = ? GROUP BY status
StatusGroups(ivs, user_id) ==
    { [status |-> s, count |-> Cardinality({ r \in ivs : r.user_id = user_id /\ r.status = s })]
      : s \in { r.status : r \in { q \in ivs : q.user_id = user_id } } }

get_status_counts_NoDefaults(ivs, user_id, io) ==
    IF io = "error" THEN Raised(ivs)
    ELSE LET rows == StatusGroups(ivs, user_id)
         IN  Returned(ivs, [s \in { g.status : g \in rows } |->
                               (CHOOSE g \in rows : g.status = s).count])

get_status_counts(ivs, user_id, io) ==
    IF io = "error" THEN Raised(ivs)
    ELSE LET rows == StatusGroups(ivs, user_id)
         IN  Returned(ivs, [s \in StatusSet \cup { g.status : g \in rows } |->
                               IF \E g \in rows : g.status = s
                               THEN (CHOOSE g \in rows : g.status = s).count
                               ELSE 0])

\* the days of month m of year y
DaysIn(y, m) ==
    IF m = 2 THEN (IF (y % 4 = 0 /\ y % 100 # 0) \/ y % 400 = 0 THEN 29 ELSE 28)
    ELSE IF m \in { 4, 6, 9, 11 } THEN 30 ELSE 31

\* date(d, '-n days')
RECURSIVE MinusDays(_, _)
MinusDays(d, n) ==
    IF n = 0 THEN d
    ELSE MinusDays(IF d[3] > 1 THEN <<d[1], d[2], d[3] - 1>>
                   ELSE IF d[2] > 1 THEN <<d[1], d[2] - 1, DaysIn(d[1], d[2] - 1)>>
                   ELSE <<d[1] - 1, 12, 31>>, n - 1)

\* the days the weekly activity looks back
ActivityDays == 7

\* SELECT DATE(interview_date), COUNT(*) ... WHERE user_id = ? AND
\* interview_date >= date('now', '-7 days') GROUP BY 1 ORDER BY 1, today being
\* the date of 'now'
get_weekly_activity(ivs, user_id, today, io) ==
    IF io = "error" THEN Raised(ivs)
    ELSE LET rows == { r \in ivs : /\ r.user_id = user_id
                                    /\ ~DateLess(r.interview_date,
                                                  MinusDays(today, ActivityDays)) }
             groups == { [date |-> d,
                          count |-> Cardinality({ r \in rows : r.interview_date = d })]
                         : d \in { r.interview_date : r \in rows } }
         IN  Returned(ivs, CHOOSE l \in Listings(groups) :
                              \A i, j \in DOMAIN l : i < j => DateLess(l[i].date, l[j].date))

RECURSIVE Gcd(_, _)
Gcd(a, b) == IF b = 0 THEN a ELSE Gcd(b, a % b)

\* the value of a / b * 100 as a fraction in lowest terms; a denominator of 0
\* stands for the ZeroDivisionError of a division by zero
Percent(a, b) ==
    IF b = 0 THEN [num |-> a * 100, den |-> 0]
    ELSE LET g == Gcd(a * 100, b) IN [num |-> (a * 100) \div g, den |-> b \div g]

MinPrepLevel == 1
MaxPrepLevel == 5

RECURSIVE success_data_NoGuard(_, _)
success_data_NoGuard(df, prep_level) ==
    IF prep_level > MaxPrepLevel THEN <<>>
    ELSE LET prep_df == SelectSeq(df, LAMBDA r : r.preparation_level = prep_level)
             total   == Len(prep_df)
             selected == Len(SelectSeq(prep_df, LAMBDA r : r.status = "Selected"))
         IN  << [level |-> prep_level, rate |-> Percent(selected, total), total |-> total] >>
             \o success_data_NoGuard(df, prep_level + 1)

\* Dashboard._show_success_rate_analysis: success_data, levels prep_level..5
RECURSIVE success_data(_, _)
success_data(df, prep_level) ==
    IF prep_level > MaxPrepLevel THEN <<>>
    ELSE LET prep_df == SelectSeq(df, LAMBDA r : r.preparation_level = prep_level)
             total   == Len(prep_df)
         IN  (IF total > 0
              THEN LET selected == Len(SelectSeq(prep_df, LAMBDA r : r.status = "Selected"))
                   IN  << [level |-> prep_level, rate |-> Percent(selected, total),
                           total |-> total] >>
              ELSE <<>>) \o success_data(df, prep_level + 1)

RECURSIVE prep_analysis_OverAll(_, _)
prep_analysis_OverAll(df, prep) ==
    IF prep > MaxPrepLevel THEN <<>>
    ELSE LET prep_df == SelectSeq(df, LAMBDA r : r.preparation_level = prep)
         IN  (IF Len(prep_df) > 0
              THEN LET selected == Len(SelectSeq(prep_df, LAMBDA r : r.status = "Selected"))
                       rejected == Len(SelectSeq(prep_df, LAMBDA r : r.status = "Rejected"))
                   IN  << [level |-> prep, total |-> Len(prep_df), selected |-> selected,
                           rejected |-> rejected,
                           rate |-> Percent(selected, Len(df))] >>
              ELSE <<>>) \o prep_analysis_OverAll(df, prep + 1)

\* AIInsights._show_weak_area_detection: prep_analysis, levels prep..5
RECURSIVE prep_analysis(_, _)
prep_analysis(df, prep) ==
    IF prep > MaxPrepLevel THEN <<>>
    ELSE LET prep_df == SelectSeq(df, LAMBDA r : r.preparation_level = prep)
         IN  (IF Len(prep_df) > 0
              THEN LET selected == Len(SelectSeq(prep_df, LAMBDA r : r.status = "Selected"))
                       rejected == Len(SelectSeq(prep_df, LAMBDA r : r.status = "Rejected"))
                   IN  << [level |-> prep, total |-> Len(prep_df), selected |-> selected,
                           rejected |-> rejected,
                           rate |-> Percent(selected, Len(prep_df))] >>
              ELSE <<>>) \o prep_analysis(df, prep + 1)

\* the order of two values of Percent that have denominators
RateLess(p, q) == p.num * q.den < q.num * p.den

\* the shortest list that gets a trend
MinTrendLen == 5

\* the number of records of df with status Selected
SelectedIn(df) == Len(SelectSeq(df, LAMBDA r : r.status = "Selected"))

trend_EarlyAgainstLate(df) ==
    IF Len(df) >= MinTrendLen
    THEN LET half == Len(df) \div 2
             early_success == Percent(SelectedIn(SubSeq(df, 1, half)), half)
             late_success  == Percent(SelectedIn(SubSeq(df, Len(df) - half + 1, Len(df))), half)
         IN  IF RateLess(late_success, early_success) THEN "improving"
             ELSE IF RateLess(early_success, late_success) THEN "declining"
             ELSE "stable"
    ELSE ""

\* AIInsights._show_predictions, the trend analysis: the label, "" when the
\* page asks for more interviews instead; df.head(k) and df.tail(k) are the
\* first and the last k records
trend(df) ==
    IF Len(df) >= MinTrendLen
    THEN LET half == Len(df) \div 2
             early_success == Percent(SelectedIn(SubSeq(df, 1, half)), half)
             late_success  == Percent(SelectedIn(SubSeq(df, Len(df) - half + 1, Len(df))), half)
         IN  IF RateLess(early_success, late_success) THEN "improving"
             ELSE IF RateLess(late_success, early_success) THEN "declining"
             ELSE "stable"
    ELSE ""

\* ------------------------------------------------------------------ topics

\* In the topic analysis the text of technical_topics is a sequence of
\* one-character strings, <<>> being the empty text.

\* str.split(sep): the pieces of text between the occurrences of sep
RECURSIVE split(_, _)
split(text, sep) ==
    IF \A i \in DOMAIN text : text[i] # sep THEN << text >>
    ELSE LET i == CHOOSE i \in DOMAIN text :
                      text[i] = sep /\ \A j \in 1..(i - 1) : text[j] # sep
         IN  << SubSeq(text, 1, i - 1) >> \o split(SubSeq(text, i + 1, Len(text)), sep)

strip_Nothing(text) == text

\* str.strip(): text without its leading and trailing blanks
RECURSIVE strip(_)
strip(text) ==
    IF text # <<>> /\ text[1] = " " THEN strip(SubSeq(text, 2, Len(text)))
    ELSE IF text # <<>> /\ text[Len(text)] = " " THEN strip(SubSeq(text, 1, Len(text) - 1))
    ELSE text

\* the value of a / b as a fraction in lowest terms, b not being 0
Ratio(a, b) == LET g == Gcd(a, b) IN [num |-> a \div g, den |-> b \div g]

\* _show_weak_area_detection, lines 119-129: one record for each token of
\* each row that has topics, in the order of the rows and of the tokens
RECURSIVE topics_data(_)
topics_data(df) ==
    IF df = <<>> THEN <<>>
    ELSE LET row    == Head(df)
             topics == split(row.technical_topics, ",")
         IN  (IF row.technical_topics # <<>>
              THEN [k \in DOMAIN topics |->
                       [topic |-> strip(topics[k]), status |-> row.status,
                        prep_level |-> row.preparation_level]]
              ELSE <<>>) \o topics_data(Tail(df))

\* the values of column topic, each once (the table is sorted afterwards)
unique(data) == { data[k].topic : k \in DOMAIN data }

RECURSIVE SumPrep(_)
SumPrep(rows) == IF rows = <<>> THEN 0 ELSE Head(rows).prep_level + SumPrep(Tail(rows))

\* lines 131-148: the row of the table for one topic
topic_row(data, topic) ==
    LET topic_rows == SelectSeq(data, LAMBDA r : r.topic = topic)
        total      == Len(topic_rows)
        selected   == Len(SelectSeq(topic_rows, LAMBDA r : r.status = "Selected"))
    IN  [Topic |-> topic,
         SuccessRate |-> IF total > 0 THEN Percent(selected, total) ELSE Percent(0, 1),
         AvgPreparation |-> Ratio(SumPrep(topic_rows), total),
         Attempts |-> total]

\* lines 118-150: the tables sort_values('Success Rate (%)') may give, rows
\* of equal rates in any order; no table when no row has topics
topic_analysis(df) ==
    LET data == topics_data(df)
        rows == { topic_row(data, t) : t \in unique(data) }
    IN  { l \in Listings(rows) :
            \A i, j \in DOMAIN l : i < j => ~RateLess(l[j].SuccessRate, l[i].SuccessRate) }

\* ------------------------------------------------------------------ tips

\* the thresholds of the tips: average preparation, success rate in percent,
\* number of interviews, and the number of tips returned
TipPrepLevel   == 3
TipSuccessRate == 15
TipInterviews  == 5
TopTips        == 5

\* the titles of the tips
ConditionalTips ==
    << "Increase Your Preparation Time", "Master the Fundamentals", "Apply to More Companies" >>
GenericTips ==
    << "Practice Mock Interviews", "Build a Project Portfolio", "Learn from Rejections" >>

RECURSIVE PrepTotal(_)
PrepTotal(df) == IF df = <<>> THEN 0 ELSE Head(df).preparation_level + PrepTotal(Tail(df))

\* df['preparation_level'].mean() < level, which is False for the NaN of an
\* empty list
MeanBelow(df, level) == df # <<>> /\ PrepTotal(df) < level * Len(df)

personalized_tips_GenericFirst(df) ==
    LET tips == GenericTips
                \o (IF MeanBelow(df, TipPrepLevel) THEN << ConditionalTips[1] >> ELSE <<>>)
                \o (IF RateLess(IF Len(df) > 0 THEN Percent(SelectedIn(df), Len(df))
                                               ELSE Percent(0, 1),
                                Percent(TipSuccessRate, 100))
                    THEN << ConditionalTips[2] >> ELSE <<>>)
                \o (IF Len(df) < TipInterviews THEN << ConditionalTips[3] >> ELSE <<>>)
    IN  SubSeq(tips, 1, IF Len(tips) < TopTips THEN Len(tips) ELSE TopTips)

\* _generate_personalized_tips: the titles of the tips, in order
personalized_tips(df) ==
    LET tips == (IF MeanBelow(df, TipPrepLevel) THEN << ConditionalTips[1] >> ELSE <<>>)
                \o (IF RateLess(IF Len(df) > 0 THEN Percent(SelectedIn(df), Len(df))
                                               ELSE Percent(0, 1),
                                Percent(TipSuccessRate, 100))
                    THEN << ConditionalTips[2] >> ELSE <<>>)
                \o (IF Len(df) < TipInterviews THEN << ConditionalTips[3] >> ELSE <<>>)
                \o GenericTips
    IN  SubSeq(tips, 1, IF Len(tips) < TopTips THEN Len(tips) ELSE TopTips)

\* ------------------------------------------------------------------ reminders

upcoming_Strict(df, today) ==
    OrderByDateAsc({ df[k] : k \in { i \in DOMAIN df : DateLess(today, df[i].interview_date) } })

\* df[df['interview_date'] >= today].sort_values('interview_date'): each
\* order the sort may give to rows of equal dates
upcoming(df, today) ==
    OrderByDateAsc({ df[k] : k \in { i \in DOMAIN df : ~DateLess(df[i].interview_date, today) } })

\* the cards of a rendered reminders page and the interviews whose card has
\* the send-reminder button
Page(cards) ==
    [cards |-> cards,
     buttons |-> { cards[k].interview_id : k \in { i \in DOMAIN cards : ~cards[i].reminder_sent } }]

\* ReminderManager.show_reminders_page, lines 26-47: the pages it may render
show_reminders_page(ivs, user_id, today, io) ==
    UNION { IF g.raised THEN { Raised(ivs) }
            ELSE IF g.ret = <<>> THEN { Returned(ivs, Page(<<>>)) }
            ELSE { Returned(ivs, Page(l)) : l \in upcoming(g.ret, today) }
            : g \in get_user_interviews(ivs, user_id, io) }

\* what the SMTP server does with a dialogue: it goes through, or the named
\* call raises
SmtpCalls    == <<"connect", "starttls", "login", "send_message", "quit">>
SmtpOutcomes == { "ok" } \cup { SmtpCalls[i] : i \in DOMAIN SmtpCalls }

\* the calls of SmtpCalls made until the one that raises, that one included
Dialogue(smtp) ==
    IF smtp = "ok" THEN SmtpCalls
    ELSE SubSeq(SmtpCalls, 1, CHOOSE i \in DOMAIN SmtpCalls : SmtpCalls[i] = smtp)

Sent(ok, calls) == [ok |-> ok, calls |-> calls]

send_email_Retry(config, subject, smtp) ==
    IF smtp = "ok" THEN Returned(None, Sent(TRUE, SmtpCalls))
    ELSE Returned(None, Sent(FALSE, Dialogue(smtp) \o Dialogue(smtp)))

\* ReminderManager._send_email: one dialogue, any exception gives False
send_email(config, subject, smtp) ==
    IF smtp = "ok" THEN Returned(None, Sent(TRUE, SmtpCalls))
    ELSE Returned(None, Sent(FALSE, Dialogue(smtp)))

\* ReminderManager._send_reminder_email
send_reminder_email(interview, config, smtp) ==
    send_email(config, <<"Interview Reminder", interview.company_name, interview.role>>, smtp)

\* ReminderManager._send_test_email
send_test_email(config, smtp) ==
    send_email(config, <<"Test Email from Interview Tracker">>, smtp)

\* ------------------------------------------------------------------ session

\* 'email_config' is not a key of the session
NoConfig == [configured |-> FALSE]

NoSession == [user_id |-> None, username |-> NoText, email |-> NoText,
              editing_interview_id |-> None, email_config |-> NoConfig]

is_logged_in == session.user_id # None

\* the call op(arg) was made and ended as r
Call(op, arg, r) ==
    /\ last_op' = op
    /\ last' = [arg |-> arg, ret |-> r.ret, raised |-> r.raised]

Done == Returned(None, None)

Init ==
    /\ users = {}
    /\ interviews = {}
    /\ interview_seq = 0
    /\ interview_skills = {}
    /\ autoincrement \in BOOLEAN
    /\ session = NoSession
    /\ last_op = "init"
    /\ last = [arg |-> None, ret |-> None, raised |-> FALSE]

\* ------------------------------------------------------------------ auth page

\* show_auth_page, Sign Up tab: the form is submitted
SignupSubmit(new_username, new_email, new_password, confirm_password, salt, io) ==
    /\ ~is_logged_in
    /\ IF new_password # confirm_password
       THEN /\ users' = users
            /\ Call("signup_form", [username |-> new_username, email |-> new_email,
                                            password |-> new_password],
                            Returned(users, Msg(FALSE, "Passwords do not match")))
       ELSE LET r == signup(users, new_username, new_email, new_password, salt, io)
            IN  /\ users' = r.store
                /\ Call("signup", [username |-> new_username, email |-> new_email,
                                           password |-> new_password], r)
    /\ UNCHANGED <<interviews, interview_seq, autoincrement, interview_skills, session>>

\* show_auth_page, Login tab: the form is submitted
LoginSubmit(username, password, now, io) ==
    /\ ~is_logged_in
    /\ LET r == login(users, username, password, now, io)
       IN  /\ users' = r.store
           /\ Call("login", [username |-> username, password |-> password,
                                     now |-> now], r)
           /\ session' = IF ~r.raised /\ r.ret.ok
                         THEN [session EXCEPT !.user_id = r.ret.user.user_id,
                                              !.username = r.ret.user.username,
                                              !.email = r.ret.user.email]
                         ELSE session
    /\ UNCHANGED <<interviews, interview_seq, autoincrement, interview_skills>>

\* the router's Logout entry: the identity is reset, every other key stays
Logout ==
    /\ is_logged_in
    /\ session' = [session EXCEPT !.user_id = None, !.username = NoText, !.email = NoText]
    /\ Call("logout", None, Done)
    /\ UNCHANGED <<users, interviews, interview_seq, autoincrement, interview_skills>>

\* AuthManager.logout: every key of the session is deleted
AuthLogout ==
    /\ is_logged_in
    /\ session' = NoSession
    /\ Call("auth_logout", None, Done)
    /\ UNCHANGED <<users, interviews, interview_seq, autoincrement, interview_skills>>

\* ------------------------------------------------------------------ router

\* the entries of the sidebar menu that dispatch to a view
Pages == { "Dashboard", "Resources", "Roadmap", "Interviews", "Analytics" }

auth_gate_Open(user) == FALSE

\* whether a run of the script stops at the auth page: `if not user: ... st.stop()`
auth_gate(user) == user = None

\* one run of the script while the menu holds page: the run ends at the auth
\* page, or goes on to the sidebar and dispatches to the view of the page
Router(page) ==
    /\ IF auth_gate(session.user_id)
       THEN Call("auth_page", [page |-> page, user |-> session.user_id], Done)
       ELSE Call("page_view", [page |-> page, user |-> session.user_id], Done)
    /\ UNCHANGED <<users, interviews, interview_seq, autoincrement, interview_skills, session>>

\* ------------------------------------------------------------------ interviews page

FormResult(called, ok) == [called |-> called, ok |-> ok]

form_submit_NoValidation(ivs, seq, auto, editing, user_id, existing_interview, interview_id, f, now, io) ==
    IF existing_interview.interview_id # None
    THEN LET r == update_interview(ivs, interview_id, f, now, io)
         IN  [interviews |-> r.store, editing |-> IF r.ret THEN None ELSE editing,
              raised |-> FALSE, ret |-> FormResult("update_interview", r.ret)]
    ELSE LET r == add_interview(ivs, seq, auto, user_id, f, io)
         IN  [interviews |-> r.store, editing |-> editing, raised |-> r.raised,
              ret |-> FormResult("add_interview", ~r.raised /\ r.ret # None)]

\* lines 94-121 of show_interview_form: the submit button was pressed with the
\* widget values f, existing_interview being what line 23 found
form_submit(ivs, seq, auto, editing, user_id, existing_interview, interview_id, f, now, io) ==
    IF f.company_name = "" \/ f.role = ""
    THEN [interviews |-> ivs, editing |-> editing, raised |-> FALSE,
          ret |-> FormResult("none", FALSE)]
    ELSE IF existing_interview.interview_id # None
    THEN LET r == update_interview(ivs, interview_id, f, now, io)
         IN  [interviews |-> r.store, editing |-> IF r.ret THEN None ELSE editing,
              raised |-> FALSE, ret |-> FormResult("update_interview", r.ret)]
    ELSE LET r == add_interview(ivs, seq, auto, user_id, f, io)
         IN  [interviews |-> r.store, editing |-> editing, raised |-> r.raised,
              ret |-> FormResult("add_interview", ~r.raised /\ r.ret # None)]

\* InterviewManager.show_interview_form on the run in which the form's submit
\* button was pressed with the widget values f: the new interviews table, the
\* new editing_interview_id and what the handler did
show_interview_form(ivs, seq, auto, editing, user_id, interview_id, f, now, io) ==
    LET existing_interview ==
            IF interview_id # None THEN get_interview_by_id(ivs, interview_id, io[1])
                                   ELSE Returned(ivs, NoInterview)
    IN  IF existing_interview.raised
        THEN [interviews |-> ivs, editing |-> editing, raised |-> TRUE,
              ret |-> FormResult("get_interview_by_id", FALSE)]
        ELSE form_submit(ivs, seq, auto, editing, user_id, existing_interview.ret,
                         interview_id, f, now, io[2])

NewSeq(ivs, seq, auto) ==
    IF auto THEN Max({ seq } \cup { r.interview_id : r \in ivs }) ELSE seq

\* show_interview_management_page: the interview form is submitted
SubmitInterviewForm(f, now, io) ==
    /\ is_logged_in
    /\ session.editing_interview_id = None
          => NextInterviewId(interviews, interview_seq, autoincrement) <= MaxInterviews
    /\ (session.editing_interview_id # None
          /\ ~\E r \in interviews : r.interview_id = session.editing_interview_id)
          => NextInterviewId(interviews, interview_seq, autoincrement) <= MaxInterviews
    /\ LET h == show_interview_form(interviews, interview_seq, autoincrement,
                                    session.editing_interview_id, session.user_id,
                                    session.editing_interview_id, f, now, io)
       IN  /\ interviews' = h.interviews
           /\ interview_seq' = NewSeq(h.interviews, interview_seq, autoincrement)
           /\ session' = [session EXCEPT !.editing_interview_id = h.editing]
           /\ Call("interview_form",
                   [user_id |-> session.user_id,
                    interview_id |-> session.editing_interview_id, f |-> f], h)
    /\ UNCHANGED <<users, autoincrement, interview_skills>>

\* the form's Cancel button, shown while the interview being edited is found
CancelEdit ==
    /\ is_logged_in
    /\ session.editing_interview_id # None
    /\ \E r \in interviews : r.interview_id = session.editing_interview_id
    /\ session' = [session EXCEPT !.editing_interview_id = None]
    /\ Call("cancel_edit", None, Done)
    /\ UNCHANGED <<users, interviews, interview_seq, autoincrement, interview_skills>>

\* the cards show_interviews_list displays for the session's user
Cards == { r \in interviews : r.user_id = session.user_id }

\* _display_interview_card: the Edit button of a card
EditClick(interview) ==
    /\ is_logged_in
    /\ interview \in Cards
    /\ session' = [session EXCEPT !.editing_interview_id = interview.interview_id]
    /\ Call("edit_click", [interview_id |-> interview.interview_id], Done)
    /\ UNCHANGED <<users, interviews, interview_seq, autoincrement, interview_skills>>

\* _display_interview_card: the Delete button of a card
DeleteClick(interview, io) ==
    /\ is_logged_in
    /\ interview \in Cards
    /\ LET r == delete_interview(interviews, interview.interview_id, io)
       IN  /\ interviews' = r.store
           /\ Call("delete_click", [interview_id |-> interview.interview_id,
                                            user_id |-> session.user_id], r)
    /\ UNCHANGED <<users, interview_seq, autoincrement, interview_skills, session>>

\* ------------------------------------------------------------------ two sessions

\* the browser sessions of the two-session specification, in which the
\* variable session maps each of them to its st.session_state and to the
\* position and the locals of its run of show_interview_form
Sessions == 1..2

\* the widgets of the empty form
BlankForm == Fields("", "", <<2025, 1, 10>>, "Applied", 3, "", "")

LoggedIn(user_id) ==
    [user_id |-> user_id, editing_interview_id |-> None, run |-> "idle",
     existing_interview |-> NoInterview, f |-> BlankForm]

\* the users table after the two accounts have signed up
Registered ==
    LET ann == CHOOSE a \in Accounts : a.username[1] = "a"
        bob == CHOOSE a \in Accounts : a.username[1] = "b"
        r1  == signup({}, ann.username, ann.email, ann.password, "s1", "ok")
    IN  signup(r1.store, bob.username, bob.email, bob.password, "s1", "ok").store

\* both sessions are past the login, as the user who registered first: two
\* tabs or two devices of one account, which see the same cards
InitSessions ==
    /\ users = Registered
    /\ interviews = {}
    /\ interview_seq = 0
    /\ interview_skills = {}
    /\ autoincrement \in BOOLEAN
    /\ session = [s \in Sessions |-> LoggedIn(NextUserId({}))]
    /\ last_op = "init"
    /\ last = [arg |-> None, ret |-> None, raised |-> FALSE]

\* _display_interview_card in session s: the Edit button of a card
SessionEdit(s, interview) ==
    /\ session[s].run = "idle"
    /\ interview \in interviews
    /\ interview.user_id = session[s].user_id
    /\ session' = [session EXCEPT ![s].editing_interview_id = interview.interview_id]
    /\ Call("edit_click", [session |-> s, interview_id |-> interview.interview_id], Done)
    /\ UNCHANGED <<users, interviews, interview_seq, autoincrement, interview_skills>>

\* show_interview_form in session s, lines 17-23 of the run in which the form
\* is submitted with the widget values f: the interview being edited is read
SessionFormRead(s, f) ==
    /\ session[s].run = "idle"
    /\ LET interview_id == session[s].editing_interview_id
           g == IF interview_id # None
                THEN get_interview_by_id(interviews, interview_id, "ok")
                ELSE Returned(interviews, NoInterview)
       IN  /\ session' = [session EXCEPT ![s].run = "submit",
                                         ![s].existing_interview = g.ret,
                                         ![s].f = f]
           /\ Call("form_read", [session |-> s, interview_id |-> interview_id], Done)
    /\ UNCHANGED <<users, interviews, interview_seq, autoincrement, interview_skills>>

\* show_interview_form in session s, lines 94-121 of the same run: the
\* values are validated and the update or the add is executed
SessionFormSubmit(s, now) ==
    /\ session[s].run = "submit"
    /\ session[s].existing_interview.interview_id = None
          => NextInterviewId(interviews, interview_seq, autoincrement) <= MaxInterviews
    /\ LET h == form_submit(interviews, interview_seq, autoincrement,
                            session[s].editing_interview_id, session[s].user_id,
                            session[s].existing_interview,
                            session[s].editing_interview_id, session[s].f, now, "ok")
       IN  /\ interviews' = h.interviews
           /\ interview_seq' = NewSeq(h.interviews, interview_seq, autoincrement)
           /\ session' = [session EXCEPT ![s] = [LoggedIn(session[s].user_id) EXCEPT
                                                   !.editing_interview_id = h.editing]]
           /\ Call("interview_form",
                   [session |-> s, user_id |-> session[s].user_id,
                    interview_id |-> session[s].editing_interview_id,
                    f |-> session[s].f], h)
    /\ UNCHANGED <<users, autoincrement, interview_skills>>

\* ------------------------------------------------------------------ two signups

\* a session on the Sign Up tab: the position of its call of signup, the
\* values it passed, the row its INSERT wrote and how the call ended
SigningUp ==
    [user_id |-> None, pc |-> "form", username |-> NoText, email |-> NoText,
     password |-> NoText, valid |-> FALSE, row |-> NoUser, ok |-> FALSE, raised |-> FALSE]

\* the store with no user, or with one who registered earlier
InitSignups ==
    /\ users \in { {}, { r \in Registered : r.user_id # NextUserId({}) } }
    /\ interviews = {}
    /\ interview_seq = 0
    /\ interview_skills = {}
    /\ autoincrement = FALSE
    /\ session = [s \in Sessions |-> SigningUp]
    /\ last_op = "init"
    /\ last = [arg |-> None, ret |-> None, raised |-> FALSE]

\* another connection holds the write lock: its INSERT has run and its
\* commit has not
Locked(s) == \E t \in Sessions \ { s } : session[t].pc = "inserted"

\* signup in session s, lines 33-46: the checks, which are the refusals of
\* signup on an empty table, and the hashing
SessionSignupRead(s, a) ==
    /\ session[s].pc = "form"
    /\ LET v == signup({}, a.username, a.email, a.password, "s1", "ok").ret
       IN  /\ session' = [session EXCEPT ![s] =
                             [@ EXCEPT !.pc = IF v.ok THEN "validated" ELSE "done",
                                       !.username = a.username, !.email = a.email,
                                       !.password = a.password, !.valid = v.ok]]
           /\ Call("signup_checks", [session |-> s, username |-> a.username,
                                     email |-> a.email], Returned(None, v.ok))
    /\ UNCHANGED <<users, interviews, interview_seq, autoincrement, interview_skills>>

SessionCreateUser_NoLock(s) ==
    /\ session[s].pc = "validated"
    /\ LET c == session[s]
           r == create_user(users, c.username, c.email, hash_password(c.password, "s1"), "ok")
       IN  /\ session' = [session EXCEPT ![s] =
                             IF r.ret
                             THEN [@ EXCEPT !.pc = "inserted",
                                            !.row = CHOOSE x \in r.store : x \notin users]
                             ELSE [@ EXCEPT !.pc = "done"]]
           /\ Call("create_user_insert", [session |-> s, username |-> c.username,
                                          email |-> c.email], Returned(None, r.ret))
    /\ UNCHANGED <<users, interviews, interview_seq, autoincrement, interview_skills>>

\* create_user in session s, the INSERT: it runs when no other connection
\* holds the write lock; an IntegrityError ends the call with False, and
\* signup with 'Username or email already exists'
SessionCreateUser(s) ==
    /\ session[s].pc = "validated"
    /\ ~Locked(s)
    /\ LET c == session[s]
           r == create_user(users, c.username, c.email, hash_password(c.password, "s1"), "ok")
       IN  /\ session' = [session EXCEPT ![s] =
                             IF r.ret
                             THEN [@ EXCEPT !.pc = "inserted",
                                            !.row = CHOOSE x \in r.store : x \notin users]
                             ELSE [@ EXCEPT !.pc = "done"]]
           /\ Call("create_user_insert", [session |-> s, username |-> c.username,
                                          email |-> c.email], Returned(None, r.ret))
    /\ UNCHANGED <<users, interviews, interview_seq, autoincrement, interview_skills>>

\* create_user in session s, the INSERT: the other connection keeps the lock
\* for longer than the connection waits, and sqlite3.OperationalError, which
\* create_user does not catch, ends the call
SessionCreateUserLocked(s) ==
    /\ session[s].pc = "validated"
    /\ Locked(s)
    /\ session' = [session EXCEPT ![s] = [@ EXCEPT !.pc = "done", !.raised = TRUE]]
    /\ Call("create_user_locked", [session |-> s, username |-> session[s].username,
                                   email |-> session[s].email], Raised(None))
    /\ UNCHANGED <<users, interviews, interview_seq, autoincrement, interview_skills>>

\* create_user in session s, the commit: the row is in the table and the
\* lock is released; signup returns success
SessionCommit(s) ==
    /\ session[s].pc = "inserted"
    /\ users' = users \cup { session[s].row }
    /\ session' = [session EXCEPT ![s] = [@ EXCEPT !.pc = "done", !.ok = TRUE]]
    /\ Call("create_user_commit", [session |-> s, username |-> session[s].username,
                                   email |-> session[s].email], Returned(None, TRUE))
    /\ UNCHANGED <<interviews, interview_seq, autoincrement, interview_skills>>

\* ------------------------------------------------------------------ views

\* Dashboard.show_dashboard: the success-rate table, none when there is no data
ShowDashboard(user_id, io) ==
    /\ \E g \in get_user_interviews(interviews, user_id, io) :
          Call("show_dashboard", [user_id |-> user_id],
               [ret |-> IF g.raised \/ g.ret = <<>> THEN <<>>
                        ELSE success_data(g.ret, MinPrepLevel),
                raised |-> g.raised])
    /\ UNCHANGED <<users, interviews, interview_seq, autoincrement, interview_skills, session>>

\* AIInsights.show_insights_page: the preparation table of the weak-area tab
ShowInsights(user_id, io) ==
    /\ \E g \in get_user_interviews(interviews, user_id, io) :
          Call("show_insights", [user_id |-> user_id],
               [ret |-> IF g.raised \/ g.ret = <<>> THEN <<>>
                        ELSE prep_analysis(g.ret, MinPrepLevel),
                raised |-> g.raised])
    /\ UNCHANGED <<users, interviews, interview_seq, autoincrement, interview_skills, session>>

\* what the tabs of the insights page show for the list df; the page returns
\* before the tabs when the list is empty
Insights(df) ==
    IF df = <<>> THEN [total |-> 0, tips |-> <<>>, trend |-> ""]
    ELSE [total |-> Len(df), tips |-> personalized_tips(df), trend |-> trend(df)]

ShowInsightsPage_Stored(user_id, io) ==
    /\ \E g \in get_user_interviews(interviews, user_id, io) :
          /\ Call("show_insights_page", [user_id |-> user_id],
                  IF g.raised THEN Raised(None)
                  ELSE Returned(None, Insights(g.ret)))
          /\ interviews' = { IF r.user_id = user_id /\ ~g.raised
                               THEN [r EXCEPT !.notes = "insights"] ELSE r
                             : r \in interviews }
    /\ UNCHANGED <<users, interview_seq, autoincrement, interview_skills, session>>

\* AIInsights.show_insights_page: the list is read and the tabs are computed
\* from it; the page with no interviews shows no tab
ShowInsightsPage(user_id, io) ==
    /\ \E g \in get_user_interviews(interviews, user_id, io) :
          /\ Call("show_insights_page", [user_id |-> user_id],
                  IF g.raised THEN Raised(None)
                  ELSE Returned(None, Insights(g.ret)))
          /\ interviews' = interviews
    /\ UNCHANGED <<users, interview_seq, autoincrement, interview_skills, session>>

\* ------------------------------------------------------------------ reminders page

\* the router's Resources entry: the reminders page is rendered
ShowReminders(user_id, today, io) ==
    /\ \E r \in show_reminders_page(interviews, user_id, today, io) :
          Call("show_reminders", [user_id |-> user_id, today |-> today], r)
    /\ UNCHANGED <<users, interviews, interview_seq, autoincrement, interview_skills, session>>

\* the run of show_reminders_page gets past its two early returns
BelowCards(today) ==
    \E r \in Cards : ~DateLess(r.interview_date, today)

\* the page rendered on today has the card of interview, with its button
HasButton(interview, today) ==
    /\ interview \in Cards
    /\ ~DateLess(interview.interview_date, today)
    /\ ~interview.reminder_sent

Shown(sent, message) == [ok |-> sent.ok, calls |-> sent.calls, message |-> message]

SendReminderClick_Unconfigured(interview, today, smtp) ==
    /\ is_logged_in
    /\ HasButton(interview, today)
    /\ LET config == session.email_config
           r == send_reminder_email(interview, config, smtp)
       IN  Call("send_reminder",
                [interview_id |-> interview.interview_id, today |-> today, smtp |-> smtp],
                IF r.raised THEN Raised(None)
                ELSE Returned(None, Shown(r.ret, IF r.ret.ok THEN "Reminder sent!"
                                                              ELSE "Failed to send")))
    /\ UNCHANGED <<users, interviews, interview_seq, autoincrement, interview_skills, session>>

SendReminderClick_Persisting(interview, today, smtp) ==
    /\ is_logged_in
    /\ HasButton(interview, today)
    /\ LET config == session.email_config
           r == send_reminder_email(interview, config, smtp)
       IN  /\ Call("send_reminder",
                   [interview_id |-> interview.interview_id, today |-> today,
                    smtp |-> smtp],
                   IF ~config.configured
                   THEN Returned(None, Shown(Sent(FALSE, <<>>), "Configure email first!"))
                   ELSE IF r.raised THEN Raised(None)
                   ELSE Returned(None, Shown(r.ret, IF r.ret.ok THEN "Reminder sent!"
                                                                 ELSE "Failed to send")))
           /\ interviews' = IF config.configured /\ ~r.raised /\ r.ret.ok
                            THEN (interviews \ { interview })
                                    \cup { [interview EXCEPT !.reminder_sent = TRUE] }
                            ELSE interviews
    /\ UNCHANGED <<users, interview_seq, autoincrement, interview_skills, session>>

\* _display_interview_reminder_card: the send-reminder button of a card
SendReminderClick(interview, today, smtp) ==
    /\ is_logged_in
    /\ HasButton(interview, today)
    /\ LET config == session.email_config
           r == send_reminder_email(interview, config, smtp)
       IN  Call("send_reminder",
                [interview_id |-> interview.interview_id, today |-> today, smtp |-> smtp],
                IF ~config.configured
                THEN Returned(None, Shown(Sent(FALSE, <<>>), "Configure email first!"))
                ELSE IF r.raised THEN Raised(None)
                ELSE Returned(None, Shown(r.ret, IF r.ret.ok THEN "Reminder sent!"
                                                              ELSE "Failed to send")))
    /\ UNCHANGED <<users, interviews, interview_seq, autoincrement, interview_skills, session>>

\* show_reminders_page: the email_config form is saved
SaveEmailConfig(config, today) ==
    /\ is_logged_in
    /\ BelowCards(today)
    /\ session' = [session EXCEPT !.email_config = config]
    /\ Call("save_config", [today |-> today], Done)
    /\ UNCHANGED <<users, interviews, interview_seq, autoincrement, interview_skills>>

\* show_reminders_page: the Send Test Email button
SendTestEmail(today, smtp) ==
    /\ is_logged_in
    /\ BelowCards(today)
    /\ session.email_config.configured
    /\ LET r == send_test_email(session.email_config, smtp)
       IN  Call("send_test_email", [today |-> today, smtp |-> smtp],
                IF r.raised THEN Raised(None)
                ELSE Returned(None, Shown(r.ret,
                         IF r.ret.ok THEN "Test email sent successfully!"
                         ELSE "Failed to send email. Please check your configuration.")))
    /\ UNCHANGED <<users, interviews, interview_seq, autoincrement, interview_skills, session>>

\* AIInsights.show_insights_page, the Predictions tab, on the list that
\* get_user_interviews has just returned
ShowPredictions ==
    /\ last_op = "get_user_interviews"
    /\ ~last.raised
    /\ last.ret # <<>>
    /\ Call("show_predictions", [user_id |-> last.arg.user_id, df |-> last.ret],
            Returned(None, trend(last.ret)))
    /\ UNCHANGED <<users, interviews, interview_seq, autoincrement, interview_skills, session>>

\* AIInsights.show_insights_page, the Weak Area Detection tab, on the list
\* that get_user_interviews has just returned: the topic table
ShowWeakAreas ==
    /\ last_op = "get_user_interviews"
    /\ ~last.raised
    /\ last.ret # <<>>
    /\ \E table \in topic_analysis(last.ret) :
          Call("show_weak_areas", [user_id |-> last.arg.user_id, df |-> last.ret],
               Returned(None, table))
    /\ UNCHANGED <<users, interviews, interview_seq, autoincrement, interview_skills, session>>

\* AIInsights.show_insights_page, the Smart Recommendations tab, on the list
\* that get_user_interviews has just returned: the personalized tips
ShowRecommendations ==
    /\ last_op = "get_user_interviews"
    /\ ~last.raised
    /\ last.ret # <<>>
    /\ Call("show_recommendations", [user_id |-> last.arg.user_id, df |-> last.ret],
            Returned(None, personalized_tips(last.ret)))
    /\ UNCHANGED <<users, interviews, interview_seq, autoincrement, interview_skills, session>>

\* ------------------------------------------------------------------ repository calls

AddInterview(user_id, f, io) ==
    /\ NextInterviewId(interviews, interview_seq, autoincrement) <= MaxInterviews
    /\ LET r == add_interview(interviews, interview_seq, autoincrement, user_id, f, io)
       IN  /\ interviews' = r.store
           /\ interview_seq' = NewSeq(r.store, interview_seq, autoincrement)
           /\ Call("add_interview", [user_id |-> user_id, f |-> f], r)
    /\ UNCHANGED <<users, autoincrement, interview_skills, session>>

GetUserInterviews(user_id, io) ==
    /\ \E r \in get_user_interviews(interviews, user_id, io) :
          Call("get_user_interviews", [user_id |-> user_id], r)
    /\ UNCHANGED <<users, interviews, interview_seq, autoincrement, interview_skills, session>>

GetInterviewById(interview_id, io) ==
    /\ Call("get_interview_by_id", [interview_id |-> interview_id],
                    get_interview_by_id(interviews, interview_id, io))
    /\ UNCHANGED <<users, interviews, interview_seq, autoincrement, interview_skills, session>>

UpdateInterview(interview_id, f, now, io) ==
    /\ LET r == update_interview(interviews, interview_id, f, now, io)
       IN  /\ interviews' = r.store
           /\ Call("update_interview", [interview_id |-> interview_id, f |-> f], r)
    /\ UNCHANGED <<users, interview_seq, autoincrement, interview_skills, session>>

DeleteInterview(interview_id, io) ==
    /\ LET r == delete_interview(interviews, interview_id, io)
       IN  /\ interviews' = r.store
           /\ Call("delete_interview", [interview_id |-> interview_id], r)
    /\ UNCHANGED <<users, interview_seq, autoincrement, interview_skills, session>>

GetWeeklyActivity(user_id, today, io) ==
    /\ Call("get_weekly_activity", [user_id |-> user_id, today |-> today],
            get_weekly_activity(interviews, user_id, today, io))
    /\ UNCHANGED <<users, interviews, interview_seq, autoincrement, interview_skills, session>>

GetStatusCounts(user_id, io) ==
    /\ Call("get_status_counts", [user_id |-> user_id],
                    get_status_counts(interviews, user_id, io))
    /\ UNCHANGED <<users, interviews, interview_seq, autoincrement, interview_skills, session>>

AddInterviewSkill(interview_id, skill_name, skill_score, io) ==
    /\ Cardinality(interview_skills) < MaxSkills
    /\ LET r == add_interview_skill(interview_skills, interview_id, skill_name, skill_score, io)
       IN  /\ interview_skills' = r.store
           /\ Call("add_interview_skill",
                   [interview_id |-> interview_id, skill_name |-> skill_name,
                    skill_score |-> skill_score], r)
    /\ UNCHANGED <<users, interviews, interview_seq, autoincrement, session>>

\* ------------------------------------------------------------------ inputs

UserIds      == 1..2
InterviewIds == 1..(MaxInterviews + 1)

Date1 == <<2024, 12, 31>>
Date2 == <<2025, 1, 10>>

\* what the form's widgets can hold: the status is one of the four options,
\* the slider gives 1..5
FormInputs ==
    { Fields(c, r, Date2, s, 3, "", "") :
        c \in { "", "Acme" }, r \in { "", "SWE" }, s \in { "Applied", "Selected" } }

\* what the two sessions type into the form
EditInputs ==
    { Fields("Acme", "SWE", Date2, "Applied", 3, "", ""),
      Fields("Acme", "SWE", Date2, "Selected", 3, "", ""),
      Fields("", "SWE", Date2, "Selected", 3, "", "") }

\* what a caller can pass to the repository, which validates nothing
RepoInputs ==
    { Fields("Acme", "SWE", Date1, "Applied", 1, "", ""),
      Fields("Acme", "SWE", Date2, "Selected", 3, "", "") }

\* the interviews the analytics are computed over: a status outside the four
\* and a preparation level outside 1..5 are stored as given
ViewInputs ==
    { Fields("Acme", "SWE", Date1, "Applied", 1, "", ""),
      Fields("Acme", "SWE", Date2, "Selected", 3, "", ""),
      Fields("Acme", "SWE", Date1, "Rejected", 3, "", ""),
      Fields("Acme", "SWE", Date2, "Offer", 6, "", "") }

Date3  == <<2025, 2, 1>>
\* the days on which the reminders page is opened
Todays == { Date2, Date3 }

\* the interviews the reminders page is opened on
ReminderInputs ==
    { Fields("Acme", "SWE", d, "Applied", 3, "", "") : d \in { Date2, Date3 } }

\* what the email_config form saves
Configs ==
    { [configured |-> TRUE, email |-> <<"a","@","x">>, password |-> "app-password",
       smtp_server |-> "smtp.gmail.com", smtp_port |-> 587, reminder_days |-> 1] }

\* interviews ten days before, seven days before, on and after the day
\* Date2 on which the weekly activity is asked for
Date0 == <<2025, 1, 3>>
ActivityInputs ==
    { Fields("Acme", "SWE", d, "Applied", 3, "", "") : d \in { Date1, Date0, Date2, Date3 } }

\* the interview lists the trend is computed over: record k of a list is
\* dated one day before record k - 1, as ORDER BY interview_date DESC gives
TrendStatuses == { "Selected", "Rejected" }
TrendLists ==
    UNION { { [k \in 1..n |->
                 NewRow(k, NextUserId({}),
                        Fields("Acme", "SWE", <<2025, 1, MaxRecords + 1 - k>>, st[k], 3, "", ""))]
              : st \in [1..n -> TrendStatuses] } : n \in 0..MaxRecords }

\* what the Technical Topics input can hold: nothing, one topic, two topics
\* with blanks around them in either order, a trailing comma, a topic twice
TopicTexts ==
    { <<>>, <<"d">>, <<"d", ",", " ", "s">>, <<" ", "s", " ", ",", "d">>,
      <<"d", ",">>, <<"d", ",", "d">> }

\* the interview lists the topics are extracted from, latest date first
TopicLists ==
    UNION { { [k \in 1..n |->
                 NewRow(k, NextUserId({}),
                        Fields("Acme", "SWE", <<2025, 1, MaxTopicRows + 1 - k>>, x[k][1], 3,
                               "", x[k][2]))]
              : x \in [1..n -> TrendStatuses \X TopicTexts] } : n \in 0..MaxTopicRows }

\* the skill assessments recorded for an interview
SkillNames  == { "SQL", "DSA" }
SkillScores == { 2, 4 }

\* the interview lists the tips are generated for, latest date first
TipPrepLevels == { 2, 4 }
TipLists ==
    UNION { { [k \in 1..n |->
                 NewRow(k, NextUserId({}),
                        Fields("Acme", "SWE", <<2025, 1, MaxTipRows + 1 - k>>, x[k][1], x[k][2],
                               "", ""))]
              : x \in [1..n -> TrendStatuses \X TipPrepLevels] } : n \in 0..MaxTipRows }

\* what the two sessions type into the Sign Up form: the same email under
\* two usernames, the same username under two emails, the account that may
\* be registered already, and a username that is too short
SignupInputs ==
    { [username |-> <<"a","n","n">>, email |-> <<"a","@","x">>, password |-> <<"s","e","c","r","e","t">>],
      [username |-> <<"a","m","y">>, email |-> <<"a","@","x">>, password |-> <<"s","e","c","r","e","t">>],
      [username |-> <<"a","n","n">>, email |-> <<"n","@","x">>, password |-> <<"s","e","c","r","e","t">>],
      [username |-> <<"b","o","b">>, email |-> <<"b","@","x">>, password |-> <<"h","u","n","t","e","r","2">>],
      [username |-> <<"a","l">>, email |-> <<"a","@","x">>, password |-> <<"s","e","c","r","e","t">>] }

\* ------------------------------------------------------------------ specifications

\* the auth page alone, with every kind of input
NextAuth ==
    \/ \E u \in Usernames, e \in Emails, p \in Passwords, s \in Salts :
          \E c \in { p, NoText } : SignupSubmit(u, e, p, c, s, "ok")
    \/ \E u \in Usernames, p \in Passwords, t \in Times : LoginSubmit(u, p, t, IoOk)
    \/ Logout
    \/ AuthLogout

SpecAuth == Init /\ [][NextAuth]_vars

\* the auth page while a statement of the store can fail
NextAuthFault ==
    \/ \E u \in Usernames, e \in Emails, p \in Passwords, s \in Salts, io \in IO :
          SignupSubmit(u, e, p, p, s, io)
    \/ \E a \in Accounts, t \in Times, io \in IO \X IO :
          LoginSubmit(a.username, a.password, t, io)
    \/ Logout

SpecAuthFault == Init /\ [][NextAuthFault]_vars

\* the router: sign up, log in, pick a page of the menu, log out
NextRouter ==
    \/ \E a \in Accounts, s \in Salts :
          SignupSubmit(a.username, a.email, a.password, a.password, s, "ok")
    \/ \E u \in Usernames, p \in Passwords, t \in Times : LoginSubmit(u, p, t, IoOk)
    \/ \E page \in Pages : Router(page)
    \/ Logout

SpecRouter == Init /\ [][NextRouter]_vars

\* the repository, called with any arguments
NextRepo ==
    \/ \E u \in UserIds, f \in RepoInputs : AddInterview(u, f, "ok")
    \/ \E u \in UserIds : GetUserInterviews(u, "ok")
    \/ \E i \in InterviewIds : GetInterviewById(i, "ok")
    \/ \E i \in InterviewIds, f \in RepoInputs, t \in Times : UpdateInterview(i, f, t, "ok")
    \/ \E i \in InterviewIds : DeleteInterview(i, "ok")

SpecRepo == Init /\ [][NextRepo]_vars

\* the repository while a statement of the store can fail
NextRepoFault ==
    \/ \E u \in UserIds, f \in RepoInputs, io \in IO : AddInterview(u, f, io)
    \/ \E u \in UserIds, io \in IO : GetUserInterviews(u, io)
    \/ \E i \in InterviewIds, io \in IO : GetInterviewById(i, io)
    \/ \E i \in InterviewIds, f \in RepoInputs, t \in Times, io \in IO :
          UpdateInterview(i, f, t, io)
    \/ \E i \in InterviewIds, io \in IO : DeleteInterview(i, io)

SpecRepoFault == Init /\ [][NextRepoFault]_vars

\* the queries and the views over the interviews that adds and updates store
NextViews ==
    \/ \E u \in UserIds, f \in ViewInputs : AddInterview(u, f, "ok")
    \/ \E r \in interviews, f \in ViewInputs, t \in Times :
          UpdateInterview(r.interview_id, f, t, "ok")
    \/ \E u \in UserIds : GetUserInterviews(u, "ok")
    \/ \E u \in UserIds : GetStatusCounts(u, "ok")
    \/ \E u \in UserIds : ShowDashboard(u, "ok")
    \/ \E u \in UserIds : ShowInsights(u, "ok")

SpecViews == Init /\ [][NextViews]_vars

\* two sessions on the interviews page, their runs interleaved statement by
\* statement
NextSessions ==
    \/ \E s \in Sessions, i \in interviews : SessionEdit(s, i)
    \/ \E s \in Sessions, f \in EditInputs : SessionFormRead(s, f)
    \/ \E s \in Sessions, t \in Times : SessionFormSubmit(s, t)

SpecSessions == InitSessions /\ [][NextSessions]_vars

\* the session of the user who registered first, past the login
InitLoggedIn ==
    /\ users = Registered
    /\ interviews = {}
    /\ interview_seq = 0
    /\ interview_skills = {}
    /\ autoincrement \in BOOLEAN
    /\ \E r \in Registered :
          /\ r.user_id = NextUserId({})
          /\ session = [NoSession EXCEPT !.user_id = r.user_id, !.username = r.username,
                                          !.email = r.email]
    /\ last_op = "init"
    /\ last = [arg |-> None, ret |-> None, raised |-> FALSE]

\* the reminders page of that user, while interviews of any user are added
\* and the user's own are edited
NextReminders ==
    \/ \E u \in UserIds, f \in ReminderInputs : AddInterview(u, f, "ok")
    \/ \E r \in Cards, f \in ReminderInputs, t \in Times :
          UpdateInterview(r.interview_id, f, t, "ok")
    \/ \E today \in Todays : ShowReminders(session.user_id, today, "ok")
    \/ \E c \in Configs, today \in Todays : SaveEmailConfig(c, today)
    \/ \E i \in interviews, today \in Todays, smtp \in SmtpOutcomes :
          SendReminderClick(i, today, smtp)
    \/ \E today \in Todays, smtp \in SmtpOutcomes : SendTestEmail(today, smtp)

SpecReminders == InitLoggedIn /\ [][NextReminders]_vars

\* the interviews page of that user: the form, and the cards' buttons
NextForm ==
    \/ \E f \in FormInputs, t \in Times : SubmitInterviewForm(f, t, IoOk)
    \/ CancelEdit
    \/ \E i \in interviews : EditClick(i)
    \/ \E i \in interviews : DeleteClick(i, "ok")

SpecForm == InitLoggedIn /\ [][NextForm]_vars

\* the weekly activity over the interviews of two users
NextActivity ==
    \/ \E u \in UserIds, f \in ActivityInputs : AddInterview(u, f, "ok")
    \/ \E i \in InterviewIds : DeleteInterview(i, "ok")
    \/ \E u \in UserIds : GetWeeklyActivity(u, Date2, "ok")

SpecActivity == Init /\ [][NextActivity]_vars

\* the store holds the interviews of a list, which get_user_interviews has
\* returned to the insights page
InitTrend ==
    /\ users = Registered
    /\ \E df \in TrendLists :
          /\ interviews = { df[k] : k \in DOMAIN df }
          /\ interview_seq = Len(df)
          /\ interview_skills = {}
          /\ last = [arg |-> [user_id |-> NextUserId({})], ret |-> df, raised |-> FALSE]
    /\ autoincrement \in BOOLEAN
    /\ \E r \in Registered :
          /\ r.user_id = NextUserId({})
          /\ session = [NoSession EXCEPT !.user_id = r.user_id, !.username = r.username,
                                          !.email = r.email]
    /\ last_op = "get_user_interviews"

NextTrend == ShowPredictions

SpecTrend == InitTrend /\ [][NextTrend]_vars

\* interviews with their skill assessments
NextSkills ==
    \/ \E u \in UserIds, f \in EditInputs : AddInterview(u, f, "ok")
    \/ \E i \in InterviewIds, n \in SkillNames, c \in SkillScores :
          AddInterviewSkill(i, n, c, "ok")
    \/ \E i \in InterviewIds : DeleteInterview(i, "ok")

SpecSkills == InitLoggedIn /\ [][NextSkills]_vars

\* the three views of a user whose store holds interviews and skill rows
NextRender ==
    \/ \E u \in UserIds, f \in ReminderInputs : AddInterview(u, f, "ok")
    \/ \E i \in interviews : AddInterviewSkill(i.interview_id, "SQL", MaxPrepLevel, "ok")
    \/ ShowDashboard(session.user_id, "ok")
    \/ ShowInsightsPage(session.user_id, "ok")
    \/ \E today \in Todays : ShowReminders(session.user_id, today, "ok")
    \/ \E c \in Configs, today \in Todays : SaveEmailConfig(c, today)

SpecRender == InitLoggedIn /\ [][NextRender]_vars

\* two sessions on the Sign Up tab, their calls of signup interleaved
\* statement by statement
NextSignups ==
    \/ \E s \in Sessions, a \in SignupInputs : SessionSignupRead(s, a)
    \/ \E s \in Sessions : SessionCreateUser(s)
    \/ \E s \in Sessions : SessionCreateUserLocked(s)
    \/ \E s \in Sessions : SessionCommit(s)

SpecSignups == InitSignups /\ [][NextSignups]_vars

\* the repository over the interviews of the two registered users
SpecRepoUsers == InitLoggedIn /\ [][NextRepo]_vars

\* the interviews page over a store whose statements may fail
NextFormFault ==
    \/ \E f \in FormInputs, t \in Times, io \in IO \X IO : SubmitInterviewForm(f, t, io)
    \/ CancelEdit
    \/ \E i \in interviews : EditClick(i)
    \/ \E i \in interviews, io \in IO : DeleteClick(i, io)

SpecFormFault == InitLoggedIn /\ [][NextFormFault]_vars

\* the email configuration and the two buttons that send, over the
\* interviews of the session's user
NextConfig ==
    \/ \E f \in ReminderInputs : AddInterview(session.user_id, f, "ok")
    \/ \E c \in Configs, today \in Todays : SaveEmailConfig(c, today)
    \/ \E i \in interviews, today \in Todays, smtp \in SmtpOutcomes :
          SendReminderClick(i, today, smtp)
    \/ \E today \in Todays, smtp \in SmtpOutcomes : SendTestEmail(today, smtp)

SpecConfig == InitLoggedIn /\ [][NextConfig]_vars

\* the store holds the interviews of a list, which get_user_interviews has
\* returned to the insights page
InitTopics ==
    /\ users = Registered
    /\ \E df \in TopicLists :
          /\ interviews = { df[k] : k \in DOMAIN df }
          /\ interview_seq = Len(df)
          /\ interview_skills = {}
          /\ last = [arg |-> [user_id |-> NextUserId({})], ret |-> df, raised |-> FALSE]
    /\ autoincrement \in BOOLEAN
    /\ \E r \in Registered :
          /\ r.user_id = NextUserId({})
          /\ session = [NoSession EXCEPT !.user_id = r.user_id, !.username = r.username,
                                          !.email = r.email]
    /\ last_op = "get_user_interviews"

NextTopics == ShowWeakAreas

SpecTopics == InitTopics /\ [][NextTopics]_vars

\* the store holds the interviews of a list, which get_user_interviews has
\* returned to the insights page
InitTips ==
    /\ users = Registered
    /\ \E df \in TipLists :
          /\ interviews = { df[k] : k \in DOMAIN df }
          /\ interview_seq = Len(df)
          /\ interview_skills = {}
          /\ last = [arg |-> [user_id |-> NextUserId({})], ret |-> df, raised |-> FALSE]
    /\ autoincrement = FALSE
    /\ \E r \in Registered :
          /\ r.user_id = NextUserId({})
          /\ session = [NoSession EXCEPT !.user_id = r.user_id, !.username = r.username,
                                          !.email = r.email]
    /\ last_op = "get_user_interviews"

NextTips == ShowRecommendations

SpecTips == InitTips /\ [][NextTips]_vars

\* the application: sign up, log in, and use the pages the router dispatches
Next ==
    \/ \E a \in Accounts, s \in Salts :
          SignupSubmit(a.username, a.email, a.password, a.password, s, "ok")
    \/ \E a \in Accounts, t \in Times : LoginSubmit(a.username, a.password, t, IoOk)
    \/ Logout
    \/ AuthLogout
    \/ \E f \in FormInputs, t \in Times : SubmitInterviewForm(f, t, IoOk)
    \/ CancelEdit
    \/ \E i \in interviews : EditClick(i)
    \/ \E i \in interviews : DeleteClick(i, "ok")
    \/ is_logged_in /\ ShowDashboard(session.user_id, "ok")
    \/ is_logged_in /\ ShowInsights(session.user_id, "ok")

Spec == Init /\ [][Next]_vars

\* ------------------------------------------------------------------ properties

IsSignup == last_op' = "signup"
IsLogin  == last_op' = "login"

\* C1: a signup that uses an email some user row already holds returns failure
\* and leaves the users table as it was, and after any sequence of signups no
\* two user rows hold the same email.
C1_DuplicateEmailRejected ==
    [][ /\ (IsSignup /\ \E r \in users : r.email = last'.arg.email)
              => (~last'.ret.ok /\ users' = users)
        /\ \A r1, r2 \in users' : r1.email = r2.email => r1 = r2 ]_vars

\* a signup with a fresh username and the email of an existing user was refused
C1_Witness ==
    /\ last_op = "signup"
    /\ ~last.ret.ok
    /\ last.ret.message = "Username or email already exists"
    /\ \E r \in users : r.email = last.arg.email
    /\ ~\E r \in users : r.username = last.arg.username

\* C2: a signup whose password has fewer than 6 characters returns failure and
\* creates no user row, whatever the username and the email are.
C2_ShortPasswordRejected ==
    [][ (IsSignup /\ Len(last'.arg.password) < 6) => (~last'.ret.ok /\ users' = users) ]_vars

\* a signup with a valid username, a valid fresh email and a 5-character
\* password was refused for the password
C2_Witness ==
    /\ last_op = "signup"
    /\ Len(last.arg.password) = 5
    /\ Len(last.arg.username) >= 3
    /\ Contains(last.arg.email, "@")
    /\ ~UsersIntegrityError(users, last.arg.username, last.arg.email)
    /\ ~last.ret.ok
    /\ last.ret.message = "Password must be at least 6 characters"

\* the user rows whose username is the one supplied and whose stored hash is
\* the hash of the supplied password under the hash's own salt
Verifying(username, password) ==
    { r \in users : /\ r.username = username
                    /\ hash_password(password, r.password_hash.salt) = r.password_hash }

\* C10: a login whose username exists and whose password verifies returns the
\* user, puts its id, username and email into the session and sets its
\* last_login to the time of the call, changing nothing else of the users
\* table; any other login returns no user, leaves the users table unchanged
\* and leaves the session without a user.
C10_LoginExactlyWhenVerified ==
    [][ IsLogin =>
          LET a == last'.arg
              m == Verifying(a.username, a.password)
          IN  IF m # {}
              THEN \E r \in m :
                      /\ last'.ret.ok
                      /\ last'.ret.user.user_id = r.user_id
                      /\ session'.user_id = r.user_id
                      /\ session'.username = r.username
                      /\ session'.email = r.email
                      /\ users' = (users \ { r }) \cup { [r EXCEPT !.last_login = a.now] }
              ELSE /\ ~last'.ret.ok
                   /\ last'.ret.user = NoUser
                   /\ users' = users
                   /\ session'.user_id = None ]_vars

\* a login succeeded while another user is registered: the session holds the
\* user and only that user's last_login is set
C10_Witness ==
    /\ last_op = "login"
    /\ last.ret.ok
    /\ session.user_id = last.ret.user.user_id
    /\ \E r \in users : r.user_id = session.user_id /\ r.last_login = last.arg.now
    /\ \E r \in users : r.user_id # session.user_id /\ r.last_login = None

HasInterview(interview_id) == \E r \in interviews : r.interview_id = interview_id

\* C3: an edit of an interview id that is not in the store returns a
\* not-found/false result and leaves the interviews table unchanged, both when
\* update_interview is called directly and when the interview form is
\* submitted while editing_interview_id names an id that is not in the store.
C3_EditOfMissingIdRejected ==
    [][ /\ (last_op' = "update_interview" /\ ~HasInterview(last'.arg.interview_id))
              => (last'.ret = FALSE /\ interviews' = interviews)
        /\ (/\ last_op' = "interview_form"
            /\ last'.arg.interview_id # None
            /\ ~HasInterview(last'.arg.interview_id))
              => (~last'.ret.ok /\ interviews' = interviews) ]_vars

\* the part of C3 the repository does keep: update_interview with an id that
\* is not in the store leaves the interviews table unchanged
C3_UpdateOfMissingIdKeepsTable ==
    [][ (last_op' = "update_interview" /\ ~HasInterview(last'.arg.interview_id))
           => interviews' = interviews ]_vars

\* C4: after delete_interview(id) has returned success, get_interview_by_id(id)
\* returns no row and no user's get_user_interviews lists a row with that id;
\* a row with an id that was not in the table appears only by an add_interview
\* that returns that id.
C4_DeletedStaysGone ==
    [][ /\ (last_op' = "delete_interview" /\ last'.ret = TRUE)
              => /\ get_interview_by_id(interviews', last'.arg.interview_id, "ok").ret
                       = NoInterview
                 /\ \A u \in UserIds :
                      \A g \in get_user_interviews(interviews', u, "ok") :
                        \A k \in DOMAIN g.ret :
                           g.ret[k].interview_id # last'.arg.interview_id
        /\ \A r \in interviews' :
              ~HasInterview(r.interview_id)
                 => (last_op' = "add_interview" /\ last'.ret = r.interview_id) ]_vars

\* delete_interview returned success for an id the store had handed out, and
\* another interview is still stored
C4_Witness ==
    /\ last_op = "delete_interview"
    /\ last.ret = TRUE
    /\ autoincrement
    /\ last.arg.interview_id <= interview_seq
    /\ ~HasInterview(last.arg.interview_id)
    /\ interviews # {}

RECURSIVE SumOver(_, _)
SumOver(f, S) ==
    IF S = {} THEN 0
    ELSE LET x == CHOOSE y \in S : TRUE IN f[x] + SumOver(f, S \ { x })

Of(user_id) == { r \in interviews : r.user_id = user_id }

\* C5: the mapping get_status_counts returns for a user has the four keys
\* Applied, Interviewed, Selected and Rejected, its values sum to the number
\* of the user's interviews, and a status no interview of the user has
\* counts 0.
C5_StatusCountsPartition ==
    last_op = "get_status_counts" =>
        LET counts == last.ret
            mine   == Of(last.arg.user_id)
        IN  /\ StatusSet \subseteq DOMAIN counts
            /\ SumOver(counts, DOMAIN counts) = Cardinality(mine)
            /\ \A s \in StatusSet : (~\E r \in mine : r.status = s) => counts[s] = 0

\* counts were taken for a user with two interviews of two statuses, while a
\* status of the four has no interview
C5_Witness ==
    /\ last_op = "get_status_counts"
    /\ Cardinality(Of(last.arg.user_id)) = 2
    /\ Cardinality({ r.status : r \in Of(last.arg.user_id) }) = 2
    /\ last.ret["Selected"] = 1
    /\ last.ret["Interviewed"] = 0

IsTable == last_op \in { "show_dashboard", "show_insights" }

AtLevel(user_id, level) == { r \in Of(user_id) : r.preparation_level = level }

\* C6: the preparation-level table of the dashboard and of the insights page
\* has a row for level L of 1..5 exactly when the user has an interview of
\* preparation level L, and no row has a total of 0 or a rate that divides
\* by zero.
C6_RowsOnlyForLevelsWithInterviews ==
    IsTable =>
        LET t == last.ret
        IN  /\ \A level \in 1..5 :
                  (\E k \in DOMAIN t : t[k].level = level)
                     <=> AtLevel(last.arg.user_id, level) # {}
            /\ \A k \in DOMAIN t :
                  t[k].level \in 1..5 /\ t[k].total # 0 /\ t[k].rate.den # 0

\* a table was rendered for a user who has an interview at level 3 and one at
\* a level outside 1..5: it has the one row of level 3
C6_Witness ==
    /\ IsTable
    /\ AtLevel(last.arg.user_id, 3) # {}
    /\ AtLevel(last.arg.user_id, 6) # {}
    /\ Len(last.ret) = 1
    /\ last.ret[1].level = 3

Selected(S) == { r \in S : r.status = "Selected" }

\* C7: for each level of 1..5 at which the user has interviews, the table's
\* row of that level reports as total the number of those interviews and as
\* rate the number of them with status Selected, divided by the total, times
\* 100.
C7_RateIsSelectedOverTotal ==
    IsTable =>
        LET t == last.ret
        IN  \A level \in 1..5 :
               LET at == AtLevel(last.arg.user_id, level)
               IN  at # {} =>
                     \E k \in DOMAIN t :
                        /\ t[k].level = level
                        /\ t[k].total = Cardinality(at)
                        /\ t[k].rate.den # 0
                        /\ t[k].rate.num * Cardinality(at)
                              = 100 * Cardinality(Selected(at)) * t[k].rate.den

\* the user's only interview is at level 3 and an update has set its status
\* to Selected: the table is the one row of level 3, 100% of 1
C7_Witness ==
    /\ IsTable
    /\ Cardinality(Of(last.arg.user_id)) = 1
    /\ \E r \in Of(last.arg.user_id) :
          r.preparation_level = 3 /\ r.status = "Selected" /\ r.updated_at # None
    /\ last.ret[1].rate = [num |-> 100, den |-> 1]
    /\ last.ret[1].total = 1

\* C8: get_user_interviews(user_id) returns each interview whose user_id is
\* the argument once and no other row, the later interview_date first.
C8_UserInterviewsByDateDesc ==
    last_op = "get_user_interviews" =>
        LET l == last.ret
        IN  /\ { l[k] : k \in DOMAIN l } = Of(last.arg.user_id)
            /\ Len(l) = Cardinality(Of(last.arg.user_id))
            /\ \A i, j \in DOMAIN l :
                  i < j => ~DateLess(l[i].interview_date, l[j].interview_date)

\* two interviews of one user with different dates were returned, the later first
C8_Witness ==
    /\ last_op = "get_user_interviews"
    /\ Len(last.ret) = 2
    /\ DateLess(last.ret[2].interview_date, last.ret[1].interview_date)

\* C9: a row of interviews that a step changes or removes belongs to the user
\* the session is logged in as.
C9_OnlyOwnerEditsOrDeletes ==
    [][ \A r \in interviews : r \notin interviews' => r.user_id = session.user_id ]_vars

\* the inputs signup is to refuse: a missing field, an email without '@', a
\* password that is too short, a username or an email that is taken
Refused(us, a) ==
    \/ a.username = NoText \/ a.email = NoText \/ a.password = NoText
    \/ ~Contains(a.email, "@")
    \/ Len(a.password) < MinPasswordLen
    \/ UsersIntegrityError(us, a.username, a.email)

\* C11: no call of signup ends in an exception, and a signup with a missing
\* field, an email without '@', a too-short password or a taken username or
\* email returns (False, message) and leaves the users table unchanged.
C11_SignupNeverRaises ==
    [][ IsSignup =>
          /\ ~last'.raised
          /\ Refused(users, last'.arg)
                => (~last'.ret.ok /\ last'.ret.message # "" /\ users' = users) ]_vars

\* the part of C11 that signup keeps when the INSERT may fail: whenever it
\* returns for an input it is to refuse, it returns (False, message) and the
\* users table is unchanged
C11_RefusedSignupKeepsUsers ==
    [][ (IsSignup /\ ~last'.raised /\ Refused(users, last'.arg))
           => (~last'.ret.ok /\ last'.ret.message # "" /\ users' = users) ]_vars

\* C12: a page view is dispatched only while the session holds a logged-in
\* user; Logout leaves the session without a user, and a session without a
\* user gets one only by a login that succeeds, so no page view is dispatched
\* between a Logout and the next successful login.
C12_PageViewsOnlyWhenLoggedIn ==
    [][ /\ last_op' = "page_view"
              => (session.user_id # None /\ last'.arg.user = session.user_id)
        /\ last_op' = "logout" => session'.user_id = None
        /\ (session.user_id = None /\ session'.user_id # None)
              => (last_op' = "login" /\ last'.ret.ok) ]_vars

\* two users have logged in, so the first has logged out before the second
\* logged in: a page other than the default one is dispatched for the second
C12_Witness ==
    /\ last_op = "page_view"
    /\ last.arg.page = "Interviews"
    /\ session.user_id # None
    /\ Cardinality(users) = 2
    /\ \A r \in users : r.last_login # None

RepositoryOps == { "add_interview", "get_user_interviews", "get_interview_by_id",
                   "update_interview", "delete_interview" }

\* C13: no call of add_interview, get_user_interviews, get_interview_by_id,
\* update_interview or delete_interview ends in an exception, also when the
\* statement it runs fails.
C13_StoreFailureNeverPropagates ==
    last_op \in RepositoryOps => ~last.raised

\* the part of C13 the repository keeps: update_interview and delete_interview
\* end in a boolean, also when the statement fails
C13_UpdateAndDeleteReturnBoolean ==
    last_op \in { "update_interview", "delete_interview" }
        => (~last.raised /\ last.ret \in BOOLEAN)

\* the editable columns of a row
FieldsOf(r) ==
    Fields(r.company_name, r.role, r.interview_date, r.status, r.preparation_level,
           r.notes, r.technical_topics)

\* C14: with two sessions editing in any interleaving, every update of an
\* existing row that a session submits returns success, and right after it
\* the stored row holds exactly the submitted values, whatever the other
\* session has read or written before: the last writer wins.
C14_LastWriterWins ==
    (/\ last_op = "interview_form"
     /\ last.arg.interview_id # None
     /\ last.arg.f.company_name # "" /\ last.arg.f.role # "")
        => /\ last.ret.called = "update_interview"
           /\ last.ret.ok
           /\ ~last.raised
           /\ \E r \in interviews :
                 /\ r.interview_id = last.arg.interview_id
                 /\ FieldsOf(r) = last.arg.f
                 /\ r.updated_at # None
           /\ Cardinality({ r \in interviews : r.interview_id = last.arg.interview_id }) = 1

\* both sessions read the same row while nobody had written it, session t
\* has updated it since, and session s is about to submit other values for it
C14_Witness ==
    \E s, t \in Sessions :
        /\ s # t
        /\ last_op = "interview_form"
        /\ last.arg.session = t
        /\ last.ret.called = "update_interview"
        /\ last.ret.ok
        /\ session[s].run = "submit"
        /\ session[s].existing_interview.interview_id = last.arg.interview_id
        /\ session[s].existing_interview.updated_at = None
        /\ session[s].f.company_name # ""
        /\ session[s].f # last.arg.f
        /\ \E r \in interviews :
              r.interview_id = last.arg.interview_id /\ FieldsOf(r) = last.arg.f

\* C15: the reminders page shows a card for each interview of the user dated
\* today or later, once, for no other interview, the earlier date first, and
\* a send-reminder button only on such a card.
C15_RemindersListUpcomingAscending ==
    last_op = "show_reminders" =>
        LET l    == last.ret.cards
            from == { r \in Of(last.arg.user_id) :
                        ~DateLess(r.interview_date, last.arg.today) }
        IN  /\ { l[k] : k \in DOMAIN l } = from
            /\ Len(l) = Cardinality(from)
            /\ \A i, j \in DOMAIN l :
                  i < j => ~DateLess(l[j].interview_date, l[i].interview_date)
            /\ last.ret.buttons \subseteq { r.interview_id : r \in from }

\* the page was opened on the day of one interview, with another one later:
\* both are listed, the one of today first, each with its button
C15_Witness ==
    /\ last_op = "show_reminders"
    /\ Len(last.ret.cards) = 2
    /\ last.ret.cards[1].interview_date = last.arg.today
    /\ DateLess(last.arg.today, last.ret.cards[2].interview_date)
    /\ Cardinality(last.ret.buttons) = 2

IsSend == last_op' \in { "send_reminder", "send_test_email" }

Count(calls, c) == Cardinality({ i \in DOMAIN calls : calls[i] = c })

\* C16: a click on a send-reminder or a send-test-email button opens at most
\* one SMTP connection and makes at most one send; when connect, STARTTLS,
\* login or send raises, the click ends without an exception, with False and
\* a failure message, with the failed dialogue not repeated, and with the
\* store and the session as they were.
C16_OneAttemptNoRetry ==
    [][ IsSend =>
          /\ ~last'.raised
          /\ \A c \in { SmtpCalls[i] : i \in DOMAIN SmtpCalls } :
                Count(last'.ret.calls, c) <= 1
          /\ last'.arg.smtp \in { "connect", "starttls", "login", "send_message" }
                => /\ ~last'.ret.ok
                   /\ last'.ret.message \in
                         { "Failed to send", "Configure email first!",
                           "Failed to send email. Please check your configuration." }
          /\ <<users', interviews', session'>> = <<users, interviews, session>> ]_vars

\* with the configuration saved, a send-reminder click whose SMTP login was
\* refused ended in "Failed to send" after the one dialogue up to the login
C16_Witness ==
    /\ last_op = "send_reminder"
    /\ session.email_config.configured
    /\ last.arg.smtp = "login"
    /\ ~last.ret.ok
    /\ last.ret.message = "Failed to send"
    /\ last.ret.calls = <<"connect", "starttls", "login">>

\* C17: no step sets reminder_sent on a stored row; a send-reminder click
\* that succeeds leaves the interviews table unchanged, and the page rendered
\* next shows the send-reminder button for the same interview again.
C17_ReminderSentNeverWritten ==
    [][ /\ \A r \in interviews' : ~r.reminder_sent
        /\ (last_op' = "send_reminder" /\ last'.ret.ok)
              => /\ interviews' = interviews
                 /\ \A r \in show_reminders_page(interviews', session'.user_id,
                                                  last'.arg.today, "ok") :
                       last'.arg.interview_id \in r.ret.buttons ]_vars

\* a reminder for an interview was sent successfully, and the card of that
\* interview has the button
C17_Witness ==
    /\ last_op = "send_reminder"
    /\ last.ret.ok
    /\ last.ret.calls = SmtpCalls
    /\ \E r \in show_reminders_page(interviews, session.user_id, last.arg.today, "ok") :
          last.arg.interview_id \in r.ret.buttons

\* C18: a submit of the interview form with an empty company name or an
\* empty role calls neither add_interview nor update_interview, leaves the
\* interviews table unchanged and leaves editing_interview_id at its value.
C18_EmptyCompanyOrRoleAborts ==
    [][ (/\ last_op' = "interview_form"
         /\ (last'.arg.f.company_name = "" \/ last'.arg.f.role = ""))
           => /\ last'.ret.called \notin { "add_interview", "update_interview" }
              /\ ~last'.ret.ok
              /\ interviews' = interviews
              /\ interview_seq' = interview_seq
              /\ session'.editing_interview_id = session.editing_interview_id ]_vars

\* while a stored interview is being edited the form was submitted with a
\* role and no company name: the edit is still open
C18_Witness ==
    /\ last_op = "interview_form"
    /\ last.arg.f.company_name = ""
    /\ last.arg.f.role # ""
    /\ last.ret.called = "none"
    /\ session.editing_interview_id # None
    /\ HasInterview(session.editing_interview_id)

\* C19: get_weekly_activity returns, in date order, one count for each day
\* from seven days before today up to today on which the user has
\* interviews, the count being their number; an interview of another user,
\* one dated after today or one dated more than seven days before today is
\* counted nowhere.
C19_WeeklyActivityInTrailingWindow ==
    last_op = "get_weekly_activity" =>
        LET l      == last.ret
            today  == last.arg.today
            window == { r \in Of(last.arg.user_id) :
                          /\ ~DateLess(r.interview_date, MinusDays(today, 7))
                          /\ ~DateLess(today, r.interview_date) }
        IN  /\ { l[k].date : k \in DOMAIN l } = { r.interview_date : r \in window }
            /\ \A k \in DOMAIN l :
                  l[k].count = Cardinality({ r \in window : r.interview_date = l[k].date })
            /\ \A i, j \in DOMAIN l : i < j => DateLess(l[i].date, l[j].date)

\* the part of C19 the query keeps: the counts cover the interviews of the
\* user dated seven days before today or later, and no other
C19_NothingOlderThanSevenDays ==
    last_op = "get_weekly_activity" =>
        LET l    == last.ret
            from == { r \in Of(last.arg.user_id) :
                        ~DateLess(r.interview_date, MinusDays(last.arg.today, 7)) }
        IN  /\ { l[k].date : k \in DOMAIN l } = { r.interview_date : r \in from }
            /\ \A k \in DOMAIN l :
                  l[k].count = Cardinality({ r \in from : r.interview_date = l[k].date })

\* C20: for a list of n >= 5 records the trend label is improving exactly
\* when the last n \div 2 records of the list hold more Selected ones than
\* the first n \div 2, declining exactly when they hold fewer, stable
\* exactly when as many (the two rates have the same denominator); for a
\* list of fewer than 5 records there is no label.
C20_TrendComparesHalvesOfTheList ==
    last_op = "show_predictions" =>
        LET df    == last.arg.df
            n     == Len(df)
            half  == n \div 2
            early == Cardinality({ k \in 1..half : df[k].status = "Selected" })
            late  == Cardinality({ k \in (n - half + 1)..n : df[k].status = "Selected" })
        IN  IF n >= 5
            THEN /\ last.ret \in { "improving", "declining", "stable" }
                 /\ last.ret = "improving" <=> late * 100 * half > early * 100 * half
                 /\ last.ret = "declining" <=> late * 100 * half < early * 100 * half
                 /\ last.ret = "stable"    <=> late = early
            ELSE last.ret = ""

\* a list of five records whose two oldest, at its end, are Selected and
\* whose two newest are not, with a Selected one in the middle that counts
\* in neither half, was labelled improving
C20_Witness ==
    /\ last_op = "show_predictions"
    /\ Len(last.arg.df) = 5
    /\ last.arg.df[1].status = "Rejected" /\ last.arg.df[2].status = "Rejected"
    /\ last.arg.df[3].status = "Selected"
    /\ last.arg.df[4].status = "Selected" /\ last.arg.df[5].status = "Selected"
    /\ DateLess(last.arg.df[5].interview_date, last.arg.df[1].interview_date)
    /\ last.ret = "improving"

\* the pieces of text between two neighbouring commas, or between a comma and
\* an end of the text, as pairs of the positions that bound them
Pieces(text) ==
    LET cuts == { 0, Len(text) + 1 } \cup { i \in DOMAIN text : text[i] = "," }
    IN  { c \in cuts \X cuts :
            c[1] < c[2] /\ ~\E m \in cuts : c[1] < m /\ m < c[2] }

\* the piece without the blanks at its ends
Trimmed(text, c) ==
    LET inner == { i \in (c[1] + 1)..(c[2] - 1) : text[i] # " " }
    IN  IF inner = {} THEN <<>>
        ELSE SubSeq(text, CHOOSE i \in inner : \A j \in inner : i <= j,
                          CHOOSE i \in inner : \A j \in inner : j <= i)

\* the (interview, token) occurrences of topic in df
Occurrences(df, topic) ==
    { o \in UNION { { <<k, c>> : c \in Pieces(df[k].technical_topics) }
                    : k \in { i \in DOMAIN df : df[i].technical_topics # <<>> } } :
        Trimmed(df[o[1]].technical_topics, o[2]) = topic }

\* C21: the topic table has one row for each trimmed comma-separated token
\* of the interviews with a non-empty topics field; the row's Attempts is
\* the number of (interview, token) occurrences of the token and its Success
\* Rate the number of those occurrences in interviews with status Selected,
\* divided by Attempts, times 100.
C21_TopicAttemptsPerToken ==
    last_op = "show_weak_areas" =>
        LET df == last.arg.df
            t  == last.ret
        IN  /\ \A i, j \in DOMAIN t : t[i].Topic = t[j].Topic => i = j
            /\ \A k \in DOMAIN df : \A c \in Pieces(df[k].technical_topics) :
                  df[k].technical_topics # <<>>
                     => \E i \in DOMAIN t : t[i].Topic = Trimmed(df[k].technical_topics, c)
            /\ \A i \in DOMAIN t :
                  LET occ == Occurrences(df, t[i].Topic)
                      sel == { o \in occ : df[o[1]].status = "Selected" }
                  IN  /\ t[i].Attempts = Cardinality(occ)
                      /\ Cardinality(occ) > 0
                      /\ t[i].SuccessRate.den # 0
                      /\ t[i].SuccessRate.num * Cardinality(occ)
                            = 100 * Cardinality(sel) * t[i].SuccessRate.den

\* a Selected interview with topics " s ,d" and a Rejected one with "d,d":
\* topic s has 1 attempt at 100%, topic d has 3 at 100/3 %
C21_Witness ==
    /\ last_op = "show_weak_areas"
    /\ Len(last.arg.df) = 2
    /\ \E k \in DOMAIN last.arg.df :
          /\ last.arg.df[k].technical_topics = <<" ", "s", " ", ",", "d">>
          /\ last.arg.df[k].status = "Selected"
    /\ Len(last.ret) = 2
    /\ \E i \in DOMAIN last.ret :
          /\ last.ret[i].Topic = <<"s">>
          /\ last.ret[i].Attempts = 1
          /\ last.ret[i].SuccessRate = [num |-> 100, den |-> 1]
    /\ \E i \in DOMAIN last.ret :
          /\ last.ret[i].Topic = <<"d">>
          /\ last.ret[i].Attempts = 3
          /\ last.ret[i].SuccessRate = [num |-> 100, den |-> 3]

\* C22: after any sequence of add_interview, add_interview_skill and
\* delete_interview, the interview_id of every row of interview_skills is the
\* interview_id of a row of interviews.
C22_SkillRowsReferenceInterviews ==
    \A s \in interview_skills : \E r \in interviews : r.interview_id = s.interview_id

\* what holds instead: a row of interview_skills, once written, is never
\* changed or removed, whatever happens to the interview it names
C22_SkillRowsNeverRemoved ==
    [][ interview_skills \subseteq interview_skills' ]_vars

\* where title stands in tips, 0 when it does not
Place(tips, title) ==
    IF \E i \in DOMAIN tips : tips[i] = title
    THEN CHOOSE i \in DOMAIN tips : tips[i] = title
    ELSE 0

\* the conditional tips whose trigger holds for df
Triggered(df) ==
    (IF PrepTotal(df) < 3 * Len(df) THEN { "Increase Your Preparation Time" } ELSE {})
    \cup (IF 100 * Cardinality({ k \in DOMAIN df : df[k].status = "Selected" }) < 15 * Len(df)
          THEN { "Master the Fundamentals" } ELSE {})
    \cup (IF Len(df) < 5 THEN { "Apply to More Companies" } ELSE {})

\* C25: _generate_personalized_tips returns 3 to 5 tips; every conditional
\* tip whose trigger holds is among them, no other conditional tip is, and
\* the conditional tips stand before every generic one, so that the cut to 5
\* drops generic tips only.
C25_TipsKeepEveryTriggeredTip ==
    last_op = "show_recommendations" =>
        LET df   == last.arg.df
            tips == last.ret
            conditional == { "Increase Your Preparation Time", "Master the Fundamentals",
                             "Apply to More Companies" }
        IN  /\ 3 <= Len(tips) /\ Len(tips) <= 5
            /\ \A i, j \in DOMAIN tips : tips[i] = tips[j] => i = j
            /\ { tips[i] : i \in DOMAIN tips } \cap conditional = Triggered(df)
            /\ \A i, j \in DOMAIN tips :
                  (tips[i] \in conditional /\ tips[j] \notin conditional) => i < j

\* fewer than five interviews, none Selected, prepared below 3 on average:
\* all three triggers hold and the last generic tip is the one that is cut
C25_Witness ==
    /\ last_op = "show_recommendations"
    /\ Cardinality(Triggered(last.arg.df)) = 3
    /\ Len(last.ret) = 5
    /\ Place(last.ret, "Apply to More Companies") = 3
    /\ Place(last.ret, "Learn from Rejections") = 0

Views == { "show_dashboard", "show_insights_page", "show_reminders", "save_config" }

\* C23: rendering the Dashboard, the Insights or the Reminders view, tips
\* included, and saving the email configuration leave the tables users,
\* interviews and interview_skills as they were; the insights are those of
\* the interviews the store holds at the render, and a render of the
\* Dashboard or of the Insights leaves the session as it was.
C23_ViewsLeaveTheStoreUnchanged ==
    [][ last_op' \in Views =>
          /\ users' = users
          /\ interviews' = interviews
          /\ interview_skills' = interview_skills
          /\ interview_seq' = interview_seq
          /\ last_op' # "save_config" => session' = session
          /\ last_op' = "show_insights_page" =>
                /\ last'.ret.total = Cardinality(Of(last'.arg.user_id))
                /\ last'.ret.total > 0 => Len(last'.ret.tips) >= 3 ]_vars

\* the insights of two interviews were rendered over a store that holds
\* interviews and skill rows, in a session that has saved its configuration
C23_Witness ==
    /\ last_op = "show_insights_page"
    /\ last.ret.total = 2
    /\ interview_skills # {}
    /\ session.email_config.configured
    /\ \A r \in interviews : r.notes = ""

\* C24: while the session holds no email_config, a click on Send Reminder
\* makes no SMTP call and shows 'Configure email first!', and no test email is
\* sent; the configuration changes only when the form saves it, and saving it
\* writes the session and no table.
C24_NoEmailWithoutConfiguration ==
    [][ /\ (last_op' = "send_reminder" /\ ~session.email_config.configured)
              => /\ ~last'.raised
                 /\ last'.ret.calls = <<>>
                 /\ ~last'.ret.ok
                 /\ last'.ret.message = "Configure email first!"
        /\ last_op' = "send_test_email" => session.email_config.configured
        /\ session'.email_config # session.email_config => last_op' = "save_config"
        /\ last_op' = "save_config"
              => /\ users' = users
                 /\ interviews' = interviews
                 /\ interview_skills' = interview_skills ]_vars

\* Send Reminder was clicked in a session that has saved no configuration
C24_Witness ==
    /\ last_op = "send_reminder"
    /\ ~session.email_config.configured
    /\ last.arg.smtp = "ok"
    /\ last.ret.message = "Configure email first!"

\* the rows the two calls of signup have written
Written == { session[s].row : s \in { t \in Sessions : session[t].ok } }

\* both calls have ended, both passed the checks, and they used the same
\* email or the same username
Raced ==
    /\ \A s \in Sessions : session[s].pc = "done" /\ session[s].valid
    /\ \/ session[1].email = session[2].email
       \/ session[1].username = session[2].username

C27_AddThenGetById ==
    [][ (last_op' = "add_interview" /\ ~last'.raised)
           => /\ ~HasInterview(last'.ret)
              /\ LET g == get_interview_by_id(interviews', last'.ret, "ok").ret
                 IN  /\ g.interview_id = last'.ret
                     /\ g.user_id = last'.arg.user_id
                     /\ g.company_name = last'.arg.f.company_name
                     /\ g.role = last'.arg.f.role
                     /\ g.interview_date = last'.arg.f.interview_date
                     /\ g.status = last'.arg.f.status
                     /\ g.preparation_level = last'.arg.f.preparation_level
                     /\ g.notes = last'.arg.f.notes
                     /\ g.technical_topics = last'.arg.f.technical_topics
                     /\ interviews' = interviews \cup { g }
              /\ users' = users ]_vars

\* the second user's Selected interview was added to a store that held an
\* interview of the first user
C27_Witness ==
    /\ last_op = "add_interview"
    /\ Cardinality(interviews) = 2
    /\ \E r \in interviews :
          /\ r.interview_id = last.ret
          /\ r.status = "Selected"
          /\ r.user_id # session.user_id
    /\ \E r \in interviews : r.interview_id # last.ret /\ r.user_id = session.user_id

\* C28: update_interview(id, ...) leaves every row with another
\* interview_id as it was and keeps the number of rows; the row with that id
\* keeps its interview_id, its user_id and its reminder_sent, and takes the
\* values passed.
C28_UpdateTouchesOneRow ==
    [][ last_op' = "update_interview"
           => /\ \A r \in interviews :
                    r.interview_id # last'.arg.interview_id => r \in interviews'
              /\ Cardinality(interviews') = Cardinality(interviews)
              /\ \A r \in interviews :
                    r.interview_id = last'.arg.interview_id
                       => \E q \in interviews' :
                             /\ q.interview_id = r.interview_id
                             /\ q.user_id = r.user_id
                             /\ q.reminder_sent = r.reminder_sent
                             /\ last'.ret = TRUE => FieldsOf(q) = last'.arg.f
              /\ users' = users ]_vars

\* one of two rows that held the same values was updated to other values:
\* the rows differ now
C28_Witness ==
    /\ last_op = "update_interview"
    /\ last.ret = TRUE
    /\ \E r, q \in interviews :
          /\ r.interview_id = last.arg.interview_id
          /\ q.interview_id # r.interview_id
          /\ r.updated_at # None
          /\ q.updated_at = None
          /\ FieldsOf(r) = last.arg.f
          /\ FieldsOf(q) # FieldsOf(r)
          /\ q.user_id = r.user_id

\* C29: delete_interview(id) removes the row with that interview_id and no
\* other, and leaves the users table as it was; with an id that no row has
\* it returns True and leaves the interviews table as it was.
C29_DeleteRemovesOneRow ==
    [][ last_op' = "delete_interview"
           => /\ interviews' \subseteq interviews
              /\ \A r \in interviews :
                    r.interview_id # last'.arg.interview_id => r \in interviews'
              /\ Cardinality(interviews \ interviews') <= 1
              /\ users' = users
              /\ ~HasInterview(last'.arg.interview_id)
                    => (last'.ret = TRUE /\ interviews' = interviews) ]_vars

\* delete_interview was called with the one id the store never hands out,
\* over a store that holds two interviews of one user
C29_Witness ==
    /\ last_op = "delete_interview"
    /\ last.arg.interview_id = MaxInterviews + 1
    /\ last.ret = TRUE
    /\ Cardinality(interviews) = MaxInterviews
    /\ \A r, q \in interviews : r.user_id = q.user_id
    /\ users # {}

\* the form ran update_interview, which returned ok
Updated(ok) ==
    /\ last_op' = "interview_form"
    /\ ~last'.raised
    /\ last'.ret.called = "update_interview"
    /\ last'.ret.ok = ok

\* the part of C30 that holds: editing_interview_id takes a value only by a
\* click on Edit of a listed interview, whose id it takes; Cancel and an
\* update that succeeds clear it, and an update that fails leaves it set
EditLifecycle ==
    /\ (session'.editing_interview_id # session.editing_interview_id
           /\ session'.editing_interview_id # None)
          => /\ last_op' = "edit_click"
             /\ last'.arg.interview_id = session'.editing_interview_id
             /\ \E r \in Cards : r.interview_id = session'.editing_interview_id
    /\ last_op' = "cancel_edit" => session'.editing_interview_id = None
    /\ Updated(TRUE) => session'.editing_interview_id = None
    /\ Updated(FALSE)
          => /\ session'.editing_interview_id = session.editing_interview_id
             /\ session'.editing_interview_id # None

\* C30: editing_interview_id is set only by a click on Edit of a listed
\* interview, it is cleared by Cancel and by an update that succeeds, it
\* stays set after an update that fails, and whenever it is set the table
\* interviews has a row with that id.
C30_EditingIdFollowsLifecycle ==
    [][ /\ EditLifecycle
        /\ session'.editing_interview_id # None
              => \E r \in interviews' : r.interview_id = session'.editing_interview_id ]_vars

\* what holds of C30 when the statements of the store may fail: the lifecycle,
\* and that only a click on Delete takes away the row that is being edited
C30_LifecycleHoldsButForDelete ==
    [][ /\ EditLifecycle
        /\ (/\ session'.editing_interview_id # None
            /\ ~\E r \in interviews' : r.interview_id = session'.editing_interview_id
            /\ \E r \in interviews : r.interview_id = session'.editing_interview_id)
              => /\ last_op' = "delete_click"
                 /\ last'.arg.interview_id = session'.editing_interview_id ]_vars

====
